---- MODULE Spec2Model ----
(***************************************************************************)
(* Verification model of the OSRS-CV-Bot core:                             *)
(*   - core/control.py    ScriptControl: terminate / pause / break state,  *)
(*                        propose_break, the guard wrapper, key listener   *)
(*   - core/api.py        HTTP control plane writers of the control flags  *)
(*   - ui/main.py         BotManager.start_bot / stop_bot                  *)
(*   - bots/*.py          the routines' error handlers around guarded calls*)
(*   - bots/core/cfg_types.py, bots/core/config.py                         *)
(*                        the Value Types, their JSON codec and the        *)
(*                        configuration container                          *)
(*                                                                         *)
(* Time is counted in ticks of 1/TicksPerSecond second.  A float range     *)
(* bound is a number of ticks, so 0.4 s is 2 ticks.                        *)
(***************************************************************************)
EXTENDS Integers, Sequences, FiniteSets, TLC

VARIABLES
    \* ---- ScriptControl (core/control.py) ----
    terminate,          \* ScriptControl._terminate
    pause,              \* ScriptControl._pause
    break_until,        \* ScriptControl.break_until, in ticks
    break_config,       \* ScriptControl.break_config: None or a BreakCfgParam
    now,                \* time.time(), in ticks
    \* ---- the routine thread inside guard.wrapper ----
    gpc,                \* position of the routine thread
    wake,               \* end of the running time.sleep(1) of the wait loop
    invoked,            \* times the wrapped operation ran in the current call
    hist,               \* history of the current guarded call (see NewCall)
    \* ---- signal listener thread ----
    lpc,                \* position of _listen_for_control
    last_pause_toggle,  \* the handler's nonlocal last_pause_toggle, in ticks
    \* ---- ui/main.py ----
    current_bot,        \* BotManager's current_bot is set
    prev,               \* the routine thread of the bot that start_bot replaced
    \* ---- SingletonMeta (core/control.py) ----
    meta,               \* _instances and the threads inside SingletonMeta.__call__
    \* ---- the bot routine that runs on the routine thread (bots/*.py) ----
    bot,                \* which BotExecutor runs
    site,               \* the call site of the routine that is executing
    swallowed,          \* a handler of the routine caught a cancellation
    \* ---- the JSON codec of the Value Types (bots/core/cfg_types.py) ----
    val,                \* a Value Type instance
    wire,               \* the wire object at hand
    decoder,            \* the class whose from_json was called
    decoded,            \* what that call returned or raised
    \* ---- a configuration container (bots/core/config.py) ----
    container,          \* the container's attributes
    exported,           \* the dict export_config returned
    import_result,      \* how import_config ended
    before,             \* the attributes when import_config was called
    updates,            \* the config dict the last import_config was given
    declared,           \* the attributes as the class declares them
    imports             \* import_config calls made so far

ctlVars == <<terminate, pause, break_until, break_config, now>>
routineVars == <<gpc, wake, invoked, hist>>
listenerVars == <<lpc, last_pause_toggle>>
\* what only BotManager and the calls of the constructor change
threadVars == <<prev, meta>>
uiVars == <<current_bot, threadVars>>
botVars == <<bot, site, swallowed>>
\* what the control actions leave alone
codecVars == <<val, wire, decoder, decoded>>
cfgVars == <<container, exported, import_result, before, updates, declared,
            imports>>
dataVars == <<codecVars, cfgVars>>
otherVars == <<botVars, dataVars>>

vars == <<terminate, pause, break_until, break_config, now, gpc, wake, invoked,
          hist, lpc, last_pause_toggle, current_bot, prev, meta, bot, site,
          swallowed,
          val, wire, decoder, decoded, container, exported, import_result, before,
          updates, declared, imports>>

----------------------------------------------------------------------------
(* Bounds of the model *)

MaxTime == 8            \* the clock saturates at this tick

(* Units and program constants *)
toggle_cooldown == 2                          \* 0.4 s of ticks
TicksPerSecond == (5 * toggle_cooldown) \div 2 \* 1 s = 2.5 * 0.4 s
DefaultTolerance == 5

\* ScriptControl.break_config = None
NoBreakCfg == [kind |-> "None"]

Min2(a, b) == IF a <= b THEN a ELSE b
Max2(a, b) == IF a >= b THEN a ELSE b

----------------------------------------------------------------------------
(* BreakCfgParam as the scheduler uses it: duration range in ticks, chance *)
(* in units of 1/ChanceScale.                                              *)

ChanceScale == 2

\* random.random() draws from [0, 1)
RandomDraws == 0 .. (ChanceScale - 1)

\* The break descriptors a bot may be configured with.
BreakConfigs ==
    { [kind |-> "BreakCfg", lo |-> 2, hi |-> 7, chance |-> 1],   \* 0.4 .. 1.4 s, 0.5
      [kind |-> "BreakCfg", lo |-> 3, hi |-> 10, chance |-> 2],  \* 0.6 .. 2 s, 1.0
      [kind |-> "BreakCfg", lo |-> 1, hi |-> 3, chance |-> 0] }  \* 0.2 .. 0.6 s, 0.0

\* BreakCfgParam.should_break with the draw r of random.random()
should_break(cfg, r) == r < cfg.chance

\* RangeParam.choose: random.uniform(a, b) lies between a and b
choose(lo, hi) == Min2(lo, hi) .. Max2(lo, hi)

\* int(x) of a non-negative duration of d ticks, in whole seconds
IntSeconds(d) == d \div TicksPerSecond

\* ScriptControl.initialize_break: break_until = time.time() + int(seconds),
\* seconds being the int that propose_break passes
initialize_break(t, seconds) == t + seconds * TicksPerSecond

----------------------------------------------------------------------------
(* History of the guarded call in progress.  None of it is read by the    *)
(* program; the flag setters keep it up to date.                           *)
(*   termAtCall    terminate was true when the call was made and has been  *)
(*                 true ever since                                         *)
(*   pauseAtCall   pause was true when the call was made and has been true *)
(*                 ever since                                              *)
(*   pausedStart   the call was made with pause = true, terminate = false  *)
(*   termInLoop    terminate was written true while the call was inside    *)
(*                 the wait loop and has been true ever since              *)
(*   slept         the wait loop has slept at least once                   *)
(*   early         the wrapped operation was invoked at now < break_until  *)

NoCall ==
    [termAtCall |-> FALSE, pauseAtCall |-> FALSE, pausedStart |-> FALSE,
     termInLoop |-> FALSE, slept |-> FALSE, early |-> FALSE]

NewCall ==
    [termAtCall |-> terminate, pauseAtCall |-> pause,
     pausedStart |-> (pause /\ ~terminate),
     termInLoop |-> FALSE, slept |-> FALSE, early |-> FALSE]

InLoop == gpc \in {"loop_term", "sleeping"}
InCall == gpc \in {"cond_time", "cond_pause", "loop_term", "sleeping",
                   "post_term", "invoke"}

HistAfter(t, p) ==
    [hist EXCEPT !.termAtCall = @ /\ t,
                 !.pauseAtCall = @ /\ p,
                 !.termInLoop = t /\ (@ \/ (InLoop /\ InCall))]

\* ScriptControl.terminate setter / ScriptControl.pause setter
SetFlags(t, p) ==
    /\ terminate' = t
    /\ pause' = p
    /\ hist' = HistAfter(t, p)

----------------------------------------------------------------------------
(* ScriptControl.guard.wrapper, one shared-state read per step             *)

\* (mutant) the wait loop does not look at break_until
GuardCondTime_NoBreak ==
    /\ gpc = "cond_time"
    /\ gpc' = "cond_pause"
    /\ UNCHANGED <<ctlVars, wake, invoked, hist, listenerVars, uiVars>>
    /\ UNCHANGED otherVars

\* while time.time() < self.break_until ...
GuardCondTime ==
    /\ gpc = "cond_time"
    /\ gpc' = IF now < break_until THEN "loop_term" ELSE "cond_pause"
    /\ UNCHANGED <<ctlVars, wake, invoked, hist, listenerVars, uiVars>>
    /\ UNCHANGED otherVars

\* (mutant) the wait loop does not look at pause
GuardCondPause_NoPause ==
    /\ gpc = "cond_pause"
    /\ gpc' = "post_term"
    /\ UNCHANGED <<ctlVars, wake, invoked, hist, listenerVars, uiVars>>
    /\ UNCHANGED otherVars

\* ... or self.pause:
GuardCondPause ==
    /\ gpc = "cond_pause"
    /\ gpc' = IF pause THEN "loop_term" ELSE "post_term"
    /\ UNCHANGED <<ctlVars, wake, invoked, hist, listenerVars, uiVars>>
    /\ UNCHANGED otherVars

\* (mutant) the wait loop sleeps without looking at terminate
GuardLoopTerm_NoCheck ==
    /\ gpc = "loop_term"
    /\ gpc' = "sleeping"
    /\ wake' = Min2(now + TicksPerSecond, MaxTime)
    /\ hist' = [hist EXCEPT !.slept = TRUE]
    /\ UNCHANGED <<ctlVars, invoked, listenerVars, uiVars>>
    /\ UNCHANGED otherVars

\* if self.terminate: raise ScriptTerminationException(); time.sleep(1)
GuardLoopTerm ==
    /\ gpc = "loop_term"
    /\ IF terminate
       THEN /\ gpc' = "raised"
            /\ UNCHANGED <<wake, hist>>
       ELSE /\ gpc' = "sleeping"
            /\ wake' = Min2(now + TicksPerSecond, MaxTime)
            /\ hist' = [hist EXCEPT !.slept = TRUE]
    /\ UNCHANGED <<ctlVars, invoked, listenerVars, uiVars>>
    /\ UNCHANGED otherVars

\* time.sleep(1) returns
GuardWake ==
    /\ gpc = "sleeping"
    /\ now >= wake
    /\ gpc' = "cond_time"
    /\ wake' = 0
    /\ UNCHANGED <<ctlVars, invoked, hist, listenerVars, uiVars>>
    /\ UNCHANGED otherVars

\* (mutant) terminate is not checked again after the wait loop
GuardPostTerm_NoRecheck ==
    /\ gpc = "post_term"
    /\ gpc' = "invoke"
    /\ UNCHANGED <<ctlVars, wake, invoked, hist, listenerVars, uiVars>>
    /\ UNCHANGED otherVars

\* after the loop: if self.terminate: raise ScriptTerminationException()
GuardPostTerm ==
    /\ gpc = "post_term"
    /\ gpc' = IF terminate THEN "raised" ELSE "invoke"
    /\ UNCHANGED <<ctlVars, wake, invoked, hist, listenerVars, uiVars>>
    /\ UNCHANGED otherVars

\* return func(*args, **kwargs)
GuardInvoke ==
    /\ gpc = "invoke"
    /\ gpc' = "returned"
    /\ invoked' = invoked + 1
    /\ hist' = [hist EXCEPT !.early = (now < break_until)]
    /\ UNCHANGED <<ctlVars, wake, listenerVars, uiVars>>
    /\ UNCHANGED otherVars

GuardStep ==
    \/ GuardCondTime
    \/ GuardCondPause
    \/ GuardLoopTerm
    \/ GuardWake
    \/ GuardPostTerm
    \/ GuardInvoke

----------------------------------------------------------------------------
(* The routine thread: a loop of guarded calls and propose_break calls     *)

\* the routine calls a function decorated with @control.guard
RoutineCall ==
    /\ gpc = "idle"
    /\ gpc' = "cond_time"
    /\ invoked' = 0
    /\ hist' = NewCall
    /\ UNCHANGED <<ctlVars, wake, listenerVars, uiVars>>
    /\ UNCHANGED otherVars

\* the guarded call returned its result to the routine
RoutineReturn ==
    /\ gpc = "returned"
    /\ gpc' = "idle"
    /\ invoked' = 0
    /\ hist' = NoCall
    /\ UNCHANGED <<ctlVars, wake, listenerVars, uiVars>>
    /\ UNCHANGED otherVars

\* (mutant) propose_break schedules without looking for a descriptor
propose_break_NoDescriptorCheck(r, d) ==
    break_until' = initialize_break(now, IntSeconds(d) + 1)

\* ScriptControl.propose_break with the draws r (random.random) and d
\* (random.uniform) made by should_break and choose
propose_break(r, d) ==
    IF break_config # NoBreakCfg
    THEN IF should_break(break_config, r)
         THEN break_until' = initialize_break(now, IntSeconds(d))
         ELSE UNCHANGED break_until
    ELSE UNCHANGED break_until

\* the routine calls self.control.propose_break() between guarded calls
ProposeBreakWith(r, d) ==
    /\ gpc = "idle"
    /\ now + d <= MaxTime
    /\ propose_break(r, d)
    /\ UNCHANGED <<terminate, pause, break_config, now, routineVars,
                   listenerVars, uiVars>>
    /\ UNCHANGED otherVars

\* the durations random.uniform can return for the configured range
Durations ==
    IF break_config = NoBreakCfg THEN {0}
    ELSE choose(break_config.lo, break_config.hi)

RoutineProposeBreak ==
    \E r \in RandomDraws : \E d \in Durations : ProposeBreakWith(r, d)

\* time passes
Tick ==
    /\ now < MaxTime
    /\ now' = now + 1
    /\ UNCHANGED <<terminate, pause, break_until, break_config, routineVars,
                   listenerVars, uiVars>>
    /\ UNCHANGED otherVars

----------------------------------------------------------------------------
(* The signal listener: _listen_for_control and its keyboard hook          *)

EventTypes == {"down", "up"}
KeyNames == {"page up", "pageup", "page down", "pagedown", "a"}

\* (mutant) the pause key is not debounced
handler_NoDebounce(etype, name, is_keypad) ==
    IF etype # "down"
    THEN UNCHANGED <<terminate, pause, hist, last_pause_toggle>>
    ELSE IF name \in {"page up", "pageup"}
    THEN IF ~is_keypad
         THEN SetFlags(TRUE, pause) /\ UNCHANGED last_pause_toggle
         ELSE UNCHANGED <<terminate, pause, hist, last_pause_toggle>>
    ELSE IF name \in {"page down", "pagedown"}
    THEN IF ~is_keypad
         THEN SetFlags(terminate, ~pause) /\ last_pause_toggle' = now
         ELSE UNCHANGED <<terminate, pause, hist, last_pause_toggle>>
    ELSE UNCHANGED <<terminate, pause, hist, last_pause_toggle>>

\* (mutant) the keypad keys act like the physical keys
handler_KeypadActs(etype, name, is_keypad) ==
    IF etype # "down"
    THEN UNCHANGED <<terminate, pause, hist, last_pause_toggle>>
    ELSE IF name \in {"page up", "pageup"}
    THEN SetFlags(TRUE, pause) /\ UNCHANGED last_pause_toggle
    ELSE IF name \in {"page down", "pagedown"}
    THEN IF now - last_pause_toggle >= toggle_cooldown
         THEN SetFlags(terminate, ~pause) /\ last_pause_toggle' = now
         ELSE UNCHANGED <<terminate, pause, hist, last_pause_toggle>>
    ELSE UNCHANGED <<terminate, pause, hist, last_pause_toggle>>

\* handler(e) of _listen_for_control, for the event (event_type, name, is_keypad)
handler(etype, name, is_keypad) ==
    IF etype # "down"
    THEN UNCHANGED <<terminate, pause, hist, last_pause_toggle>>
    ELSE IF name \in {"page up", "pageup"}
    THEN IF ~is_keypad
         THEN SetFlags(TRUE, pause) /\ UNCHANGED last_pause_toggle
         ELSE UNCHANGED <<terminate, pause, hist, last_pause_toggle>>
    ELSE IF name \in {"page down", "pagedown"}
    THEN IF ~is_keypad /\ now - last_pause_toggle >= toggle_cooldown
         THEN SetFlags(terminate, ~pause) /\ last_pause_toggle' = now
         ELSE UNCHANGED <<terminate, pause, hist, last_pause_toggle>>
    ELSE UNCHANGED <<terminate, pause, hist, last_pause_toggle>>

\* a key event reaches the hook registered by keyboard.hook(handler)
KeyEvent ==
    /\ lpc = "hooked"
    /\ \E etype \in EventTypes, name \in KeyNames, is_keypad \in BOOLEAN :
          handler(etype, name, is_keypad)
    /\ UNCHANGED <<break_until, break_config, now, gpc, wake, invoked, lpc, uiVars>>
    /\ UNCHANGED otherVars

\* while not self.terminate: time.sleep(0.25) ends; keyboard.unhook_all()
ListenerExit ==
    /\ lpc = "hooked"
    /\ terminate
    /\ lpc' = "exited"
    /\ last_pause_toggle' = 0
    /\ UNCHANGED <<ctlVars, routineVars, uiVars>>
    /\ UNCHANGED otherVars

----------------------------------------------------------------------------
(* The HTTP control plane of core/api.py                                   *)

\* request.json.get(key, False) and bool() of it: the key may be absent
JsonBodies == {"absent", "true", "false"}
BodyValue(body) == body = "true"

\* Bot.__init__ starts the BotAPI server with the first executor
ApiUp == gpc # "none"

\* POST /api/control/terminate
set_terminate ==
    /\ ApiUp
    /\ \E body \in JsonBodies : SetFlags(BodyValue(body), pause)
    /\ UNCHANGED <<break_until, break_config, now, gpc, wake, invoked,
                   listenerVars, uiVars>>
    /\ UNCHANGED otherVars

\* POST /api/control/pause
set_pause ==
    /\ ApiUp
    /\ \E body \in JsonBodies : SetFlags(terminate, BodyValue(body))
    /\ UNCHANGED <<break_until, break_config, now, gpc, wake, invoked,
                   listenerVars, uiVars>>
    /\ UNCHANGED otherVars

----------------------------------------------------------------------------
(* BotManager of ui/main.py                                                *)

RoutineAlive == gpc \notin {"none", "raised"}

\* BotManager.stop_bot: no executor defines stop(), so terminate is set.
\* start_bot runs it first when a bot is current.
stop_bot ==
    /\ current_bot
    /\ SetFlags(TRUE, pause)
    /\ current_bot' = FALSE
    /\ UNCHANGED <<break_until, break_config, now, gpc, wake, invoked,
                   listenerVars, threadVars>>
    /\ UNCHANGED otherVars

\* BotManager.start_bot once no bot is current and the routine thread of the
\* last bot has ended: the executor is constructed (Bot.__init__ installs
\* break_cfg when given), the control flags are reset and the routine thread
\* is started
start_bot_run(cfg) ==
    /\ ~current_bot
    /\ ~RoutineAlive
    /\ break_config' = IF cfg # NoBreakCfg THEN cfg ELSE break_config
    /\ terminate' = FALSE
    /\ pause' = FALSE
    /\ gpc' = "idle"
    /\ invoked' = 0
    /\ hist' = NoCall
    /\ wake' = 0
    /\ current_bot' = TRUE
    /\ UNCHANGED <<break_until, now, listenerVars, threadVars>>
    /\ UNCHANGED otherVars

start_bot == \E cfg \in BreakConfigs \cup {NoBreakCfg} : start_bot_run(cfg)

\* BotManager.control_bot(action, value)
control_bot ==
    /\ current_bot
    /\ \E action \in {"pause", "resume", "terminate"}, value \in {"null", "true", "false"} :
          IF action = "pause"
          THEN SetFlags(terminate, value # "false")
          ELSE IF action = "resume"
          THEN SetFlags(terminate, FALSE)
          ELSE SetFlags(TRUE, pause)
    /\ UNCHANGED <<break_until, break_config, now, gpc, wake, invoked,
                   listenerVars, uiVars>>
    /\ UNCHANGED otherVars

\* bot_monitoring_thread: the bot thread is no longer alive
bot_monitoring ==
    /\ current_bot
    /\ gpc = "raised"
    /\ current_bot' = FALSE
    /\ UNCHANGED <<ctlVars, routineVars, listenerVars, threadVars>>
    /\ UNCHANGED otherVars

----------------------------------------------------------------------------
(* start_bot while the routine thread of the last bot is alive: stop_bot   *)
(* has set terminate and cleared current_bot, and start_bot goes on        *)
(* without joining the thread.  prev follows that thread: its position in  *)
(* guard.wrapper and the end of its time.sleep(1).                         *)

NoPrev == [pc |-> "none", wake |-> 0]

\* BotManager.start_bot once stop_bot has run, the routine thread of the
\* stopped bot still alive
replace_bot ==
    /\ ~current_bot
    /\ RoutineAlive
    /\ prev.pc \in {"none", "raised"}
    /\ \E cfg \in BreakConfigs \cup {NoBreakCfg} :
          break_config' = IF cfg # NoBreakCfg THEN cfg ELSE break_config
    /\ prev' = [pc |-> gpc, wake |-> wake]
    /\ terminate' = FALSE
    /\ pause' = FALSE
    /\ gpc' = "idle"
    /\ invoked' = 0
    /\ hist' = NoCall
    /\ wake' = 0
    /\ current_bot' = TRUE
    /\ UNCHANGED <<break_until, now, listenerVars, meta>>
    /\ UNCHANGED otherVars

\* the replaced routine calls a function decorated with @control.guard
previous_call ==
    /\ prev.pc = "idle"
    /\ prev' = [prev EXCEPT !.pc = "cond_time"]
    /\ UNCHANGED <<ctlVars, routineVars, listenerVars, current_bot, meta>>
    /\ UNCHANGED otherVars

\* one step of guard.wrapper on the replaced routine's thread
previous_guard ==
    /\ prev.pc \in {"cond_time", "cond_pause", "loop_term", "sleeping",
                    "post_term", "invoke"}
    /\ prev.pc = "sleeping" => now >= prev.wake
    /\ prev' =
          IF prev.pc = "cond_time"
          THEN [prev EXCEPT !.pc = IF now < break_until THEN "loop_term"
                                   ELSE "cond_pause"]
          ELSE IF prev.pc = "cond_pause"
          THEN [prev EXCEPT !.pc = IF pause THEN "loop_term" ELSE "post_term"]
          ELSE IF prev.pc = "loop_term"
          THEN IF terminate
               THEN [prev EXCEPT !.pc = "raised"]
               ELSE [prev EXCEPT !.pc = "sleeping",
                                 !.wake = Min2(now + TicksPerSecond, MaxTime)]
          ELSE IF prev.pc = "sleeping"
          THEN [prev EXCEPT !.pc = "cond_time", !.wake = 0]
          ELSE IF prev.pc = "post_term"
          THEN [prev EXCEPT !.pc = IF terminate THEN "raised" ELSE "invoke"]
          ELSE [prev EXCEPT !.pc = "returned"]
    /\ UNCHANGED <<ctlVars, routineVars, listenerVars, current_bot, meta>>
    /\ UNCHANGED otherVars

\* the guarded call returned its result to the replaced routine
previous_return ==
    /\ prev.pc = "returned"
    /\ prev' = [prev EXCEPT !.pc = "idle"]
    /\ UNCHANGED <<ctlVars, routineVars, listenerVars, current_bot, meta>>
    /\ UNCHANGED otherVars

----------------------------------------------------------------------------
(* SingletonMeta.__call__ on several threads: each caller tests the        *)
(* registry, constructs, stores and returns, one statement per step.       *)
(* Instances are numbered in the order of their construction; 0 is none.   *)

MaxCallers == 3

Callers == 1 .. MaxCallers

NoMeta == [pc |-> [t \in Callers |-> "call"],
           instance |-> [t \in Callers |-> 0],
           registered |-> 0,
           created |-> 0,
           returned |-> [t \in Callers |-> 0]]

\* if cls not in cls._instances:
SingletonCheck ==
    /\ \E t \in Callers :
          /\ meta.pc[t] = "call"
          /\ meta' = [meta EXCEPT !.pc[t] = IF meta.registered = 0 THEN "create"
                                            ELSE "return"]
    /\ UNCHANGED <<ctlVars, routineVars, listenerVars, current_bot, prev>>
    /\ UNCHANGED otherVars

\* instance = super().__call__(*args, **kwargs): __init__ runs and starts a
\* listener thread
SingletonCreate ==
    /\ \E t \in Callers :
          /\ meta.pc[t] = "create"
          /\ meta' = [meta EXCEPT !.pc[t] = "store",
                                  !.created = meta.created + 1,
                                  !.instance[t] = meta.created + 1]
    /\ UNCHANGED <<ctlVars, routineVars, listenerVars, current_bot, prev>>
    /\ UNCHANGED otherVars

\* cls._instances[cls] = instance
SingletonStore ==
    /\ \E t \in Callers :
          /\ meta.pc[t] = "store"
          /\ meta' = [meta EXCEPT !.pc[t] = "return",
                                  !.registered = meta.instance[t]]
    /\ UNCHANGED <<ctlVars, routineVars, listenerVars, current_bot, prev>>
    /\ UNCHANGED otherVars

\* return cls._instances[cls]
SingletonReturn ==
    /\ \E t \in Callers :
          /\ meta.pc[t] = "return"
          /\ meta' = [meta EXCEPT !.pc[t] = "done",
                                  !.returned[t] = meta.registered]
    /\ UNCHANGED <<ctlVars, routineVars, listenerVars, current_bot, prev>>
    /\ UNCHANGED otherVars

----------------------------------------------------------------------------
(* Python and JSON values.  Every value carries its runtime type in k:     *)
(*   none, bool, int, float (v in units of 1/FloatScale), str (v a sequence*)
(*   of characters), list, tuple (v a sequence of values), dict (v a       *)
(*   function from keys to values) and obj, an instance of the Value Type  *)
(*   class cls with the attributes f.                                      *)

FloatScale == 2 * TicksPerSecond

PyNone == [k |-> "none"]
Bool(b) == [k |-> "bool", v |-> b]
Integer(n) == [k |-> "int", v |-> n]
Float(n) == [k |-> "float", v |-> n]
Str(s) == [k |-> "str", v |-> s]
List(s) == [k |-> "list", v |-> s]
Tuple(s) == [k |-> "tuple", v |-> s]
Dict(d) == [k |-> "dict", v |-> d]
Obj(c, f) == [k |-> "obj", cls |-> c, f |-> f]

\* the outcome of a call: a returned value or a raised exception
Ok(x) == [ok |-> TRUE, val |-> x]
Raise(e, m) == [ok |-> FALSE, err |-> e, msg |-> m]

IsNumber(x) == x.k \in {"bool", "int", "float"}

\* the numeric value of a bool, int or float in units of 1/FloatScale
Scaled(x) ==
    IF x.k = "float" THEN x.v
    ELSE IF x.k = "int" THEN x.v * FloatScale
    ELSE IF x.v THEN FloatScale ELSE 0

\* "0" .. "9" as a decimal literal
Digits == <<"0", "1", "2", "3", "4", "5", "6", "7", "8", "9">>
DigitVal(c) == (CHOOSE i \in 1 .. Len(Digits) : Digits[i] = c) - 1
IsDecimal(s) == Len(s) > 0 /\ \A i \in 1 .. Len(s) : \E j \in 1 .. Len(Digits) : Digits[j] = s[i]

RECURSIVE ParseDecimal(_)
ParseDecimal(s) ==
    IF Len(s) = 0 THEN 0
    ELSE 10 * ParseDecimal(SubSeq(s, 1, Len(s) - 1)) + DigitVal(s[Len(s)])

\* float(x)
PyFloat(x) ==
    IF IsNumber(x) THEN Ok(Float(Scaled(x)))
    ELSE IF x.k = "str"
    THEN IF IsDecimal(x.v) THEN Ok(Float(ParseDecimal(x.v) * FloatScale))
         ELSE Raise("ValueError", "could not convert string to float")
    ELSE Raise("TypeError", "float() argument must be a string or a real number")

\* int(x): a float is truncated toward zero
PyInt(x) ==
    IF x.k = "int" THEN Ok(x)
    ELSE IF x.k = "bool" THEN Ok(Integer(IF x.v THEN 1 ELSE 0))
    ELSE IF x.k = "float"
    THEN Ok(Integer(IF x.v >= 0 THEN x.v \div FloatScale
                ELSE -((-x.v) \div FloatScale)))
    ELSE IF x.k = "str"
    THEN IF IsDecimal(x.v) THEN Ok(Integer(ParseDecimal(x.v)))
         ELSE Raise("ValueError", "invalid literal for int()")
    ELSE Raise("TypeError", "int() argument must be a string or a real number")

\* bool(x): the truth value of x
PyBool(x) ==
    CASE x.k = "none" -> FALSE
      [] x.k = "bool" -> x.v
      [] x.k \in {"int", "float"} -> x.v # 0
      [] x.k \in {"str", "list", "tuple"} -> Len(x.v) > 0
      [] x.k = "dict" -> DOMAIN x.v # {}
      [] OTHER -> IF x.cls = "Boolean" THEN x.f.value.v
                  ELSE IF x.cls \in {"StringList", "RGBList"}
                  THEN Len(x.f.value.v) > 0
                  ELSE TRUE

RECURSIVE DecimalOf(_)
DecimalOf(n) ==
    IF n < 10 THEN <<Digits[n + 1]>>
    ELSE DecimalOf(n \div 10) \o <<Digits[(n % 10) + 1]>>

\* str(x) of a str, bool, None or int; other values print their repr
PyStr(x) ==
    CASE x.k = "str" -> x
      [] x.k = "bool" -> Str(IF x.v THEN <<"T", "r", "u", "e">>
                             ELSE <<"F", "a", "l", "s", "e">>)
      [] x.k = "none" -> Str(<<"N", "o", "n", "e">>)
      [] x.k = "int" -> Str(IF x.v >= 0 THEN DecimalOf(x.v)
                            ELSE <<"-">> \o DecimalOf(-x.v))
      [] OTHER -> Str(<<"<", x.k, ">">>)

\* d.get(key) and `key in d` of a dict
HasKey(d, key) == d.k = "dict" /\ key \in DOMAIN d.v
Get(d, key, default) == IF key \in DOMAIN d.v THEN d.v[key] ELSE default

\* the type tags, as the str each class's type() returns
Tag(c) ==
    CASE c = "RGB" -> Str(<<"R", "G", "B">>)
      [] c = "Range" -> Str(<<"R", "a", "n", "g", "e">>)
      [] c = "BreakCfg" -> Str(<<"B", "r", "e", "a", "k", "C", "f", "g">>)
      [] c = "Waypoint" -> Str(<<"W", "a", "y", "p", "o", "i", "n", "t">>)
      [] c = "Route" -> Str(<<"R", "o", "u", "t", "e">>)
      [] c = "Item" -> Str(<<"I", "t", "e", "m">>)
      [] c = "Boolean" -> Str(<<"B", "o", "o", "l", "e", "a", "n">>)
      [] c = "String" -> Str(<<"S", "t", "r", "i", "n", "g">>)
      [] c = "Int" -> Str(<<"I", "n", "t">>)
      [] c = "Float" -> Str(<<"F", "l", "o", "a", "t">>)
      [] c = "StringList" -> Str(<<"S", "t", "r", "i", "n", "g", "L", "i", "s", "t">>)
      [] OTHER -> Str(<<"R", "G", "B", "L", "i", "s", "t">>)

\* cfg_types.TYPES: the twelve Value Type classes
TYPES == {"RGB", "Waypoint", "Route", "Range", "BreakCfg", "Item", "Boolean",
          "String", "Int", "Float", "StringList", "RGBList"}

\* (mutant) a wire object without a tag passes the check
TagMismatch_AbsentPasses(c, data) ==
    HasKey(data, "type") /\ data.v.type # Tag(c)

\* `data.get("type") != cls.type()`, the first statement of every from_json
TagMismatch(c, data) == Get(data, "type", PyNone) # Tag(c)

\* the ValueError every from_json raises on a tag mismatch
ExpectedType == Raise("ValueError", "Expected type")
----------------------------------------------------------------------------
(* RGBParam *)

\* `0 <= val <= 255` of one channel: it holds, it fails, or the comparison
\* raises TypeError
ChannelCheck(c) ==
    IF ~IsNumber(c) THEN "TypeError"
    ELSE IF 0 <= Scaled(c) /\ Scaled(c) <= 255 * FloatScale THEN "in"
    ELSE "out"

\* RGBParam.__init__: all() stops at the first channel that is not within
\* 0 .. 255, whose test fails or raises
RGBParam(r, g, b) ==
    IF ChannelCheck(r) = "out"
    THEN Raise("ValueError", "RGB values must be between 0 and 255")
    ELSE IF ChannelCheck(r) = "TypeError"
    THEN Raise("TypeError", "'<=' not supported")
    ELSE IF ChannelCheck(g) = "out"
    THEN Raise("ValueError", "RGB values must be between 0 and 255")
    ELSE IF ChannelCheck(g) = "TypeError"
    THEN Raise("TypeError", "'<=' not supported")
    ELSE IF ChannelCheck(b) = "out"
    THEN Raise("ValueError", "RGB values must be between 0 and 255")
    ELSE IF ChannelCheck(b) = "TypeError"
    THEN Raise("TypeError", "'<=' not supported")
    ELSE Ok(Obj("RGB", [r |-> r, g |-> g, b |-> b]))

\* RGBParam.from_rgb
from_rgb(r, g, b) == RGBParam(r, g, b)

HexDigits == <<"0", "1", "2", "3", "4", "5", "6", "7", "8", "9",
               "A", "B", "C", "D", "E", "F">>
LowerHexDigits == <<"0", "1", "2", "3", "4", "5", "6", "7", "8", "9",
                    "a", "b", "c", "d", "e", "f">>

\* format(n, "X")
RECURSIVE FormatX(_)
FormatX(n) ==
    IF n < 16 THEN <<HexDigits[n + 1]>>
    ELSE FormatX(n \div 16) \o <<HexDigits[(n % 16) + 1]>>

\* (mutant) "{:X}": no zero padding
Format02X_Unpadded(n) == FormatX(n)

\* "{:02X}".format(n)
Format02X(n) == IF n < 16 THEN <<"0">> \o FormatX(n) ELSE FormatX(n)

\* RGBParam.to_hex
to_hex(c) ==
    Str(<<"#">> \o Format02X(c.f.r.v) \o Format02X(c.f.g.v) \o Format02X(c.f.b.v))

IsHexDigit(ch) ==
    \E i \in 1 .. 16 : HexDigits[i] = ch \/ LowerHexDigits[i] = ch
HexVal(ch) ==
    (CHOOSE i \in 1 .. 16 : HexDigits[i] = ch \/ LowerHexDigits[i] = ch) - 1

\* hex_color.lstrip('#')
RECURSIVE LStripHash(_)
LStripHash(s) ==
    IF Len(s) > 0 /\ Head(s) = "#" THEN LStripHash(Tail(s)) ELSE s

\* RGBParam.from_tuple
from_tuple(t) ==
    IF Len(t.v) # 3
    THEN Raise("ValueError", "RGB tuple must contain exactly 3 values")
    ELSE RGBParam(t.v[1], t.v[2], t.v[3])

\* RGBParam.from_hex
from_hex(hex_color) ==
    LET h == LStripHash(hex_color.v) IN
    IF Len(h) # 6
    THEN Raise("ValueError", "Hex color must be 6 characters long")
    ELSE IF \A i \in 1 .. 6 : IsHexDigit(h[i])
    THEN RGBParam(Integer(16 * HexVal(h[1]) + HexVal(h[2])),
                  Integer(16 * HexVal(h[3]) + HexVal(h[4])),
                  Integer(16 * HexVal(h[5]) + HexVal(h[6])))
    ELSE Raise("ValueError", "Invalid hex color format")

\* RGBParam.load
RGB_load(value) ==
    IF value.k = "list" /\ Len(value.v) = 3 THEN from_tuple(Tuple(value.v))
    ELSE IF value.k = "tuple" /\ Len(value.v) = 3 THEN from_tuple(value)
    ELSE IF value.k = "str" THEN from_hex(value)
    ELSE Raise("ValueError", "RGB value must be a list/tuple of three integers or a hex string")

\* RGBParam.to_json
RGB_to_json(c) ==
    Dict([type |-> Tag("RGB"),
          value |-> Dict([rgb |-> Tuple(<<c.f.r, c.f.g, c.f.b>>),
                          hex |-> to_hex(c)])])

\* RGBParam.from_json
RGB_from_json(data) ==
    IF TagMismatch("RGB", data) THEN ExpectedType
    ELSE IF ~HasKey(data, "value") THEN Raise("KeyError", "value")
    ELSE LET value == data.v.value IN
         IF HasKey(value, "hex")
         THEN IF value.v.hex.k = "str" THEN from_hex(value.v.hex)
              ELSE Raise("AttributeError", "lstrip")
         ELSE IF HasKey(value, "rgb")
         THEN IF value.v.rgb.k \in {"list", "tuple"}
              THEN from_tuple(Tuple(value.v.rgb.v))
              ELSE Raise("TypeError", "object is not iterable")
         ELSE RGB_load(value)

----------------------------------------------------------------------------
(* RangeParam *)

\* RangeParam.__init__
RangeParam(min_value, max_value) ==
    Obj("Range", [min_value |-> min_value, max_value |-> max_value])

\* RangeParam.load
Range_load(value) ==
    IF value.k \in {"list", "tuple", "str"}
    THEN IF Len(value.v) # 2
         THEN Raise("ValueError", "Range value must be a list of two floats.")
         ELSE IF value.k = "str"
         THEN Ok(RangeParam(Str(<<value.v[1]>>), Str(<<value.v[2]>>)))
         ELSE Ok(RangeParam(value.v[1], value.v[2]))
    ELSE IF value.k = "dict"
    THEN IF Cardinality(DOMAIN value.v) # 2
         THEN Raise("ValueError", "Range value must be a list of two floats.")
         ELSE Raise("KeyError", "0")
    ELSE Raise("TypeError", "object has no len()")

\* RangeParam.to_json
Range_to_json(x) ==
    Dict([type |-> Tag("Range"),
          value |-> List(<<x.f.min_value, x.f.max_value>>)])

\* RangeParam.from_json
Range_from_json(data) ==
    IF data.k # "dict" THEN Raise("AttributeError", "get")
    ELSE IF TagMismatch("Range", data) THEN ExpectedType
    ELSE IF ~HasKey(data, "value") THEN Raise("KeyError", "value")
    ELSE Range_load(data.v.value)

----------------------------------------------------------------------------
(* BreakCfgParam *)

\* BreakCfgParam.__init__: break_chance is stored as float
BreakCfgParam(break_duration, break_chance) ==
    LET raw == IF break_chance.k = "obj" THEN
                   IF break_chance.cls \in {"Boolean", "String", "Int", "Float"}
                   THEN break_chance.f.value
                   ELSE List(<< >>)
               ELSE break_chance
        chance == PyFloat(raw) IN
    IF chance.ok
    THEN Ok(Obj("BreakCfg", [break_duration |-> break_duration,
                             break_chance |-> chance.val]))
    ELSE chance

\* BreakCfgParam.load
BreakCfg_load(value) ==
    IF value.k \notin {"list", "tuple"}
    THEN Raise("TypeError", "unsupported BreakCfg value")
    ELSE IF Len(value.v) # 2
    THEN Raise("ValueError", "BreakCfg value must be a list of two elements")
    ELSE LET break_duration == Range_load(value.v[1])
             break_chance == PyFloat(value.v[2]) IN
         IF ~break_duration.ok THEN break_duration
         ELSE IF ~break_chance.ok
         THEN Raise("ValueError", "BreakCfg break_chance must be a float")
         ELSE BreakCfgParam(break_duration.val, break_chance.val)

\* BreakCfgParam.to_json
BreakCfg_to_json(x) ==
    Dict([type |-> Tag("BreakCfg"),
          value |-> Dict([break_duration |-> Range_to_json(x.f.break_duration),
                          break_chance |-> x.f.break_chance])])

\* BreakCfgParam.from_json
BreakCfg_from_json(data) ==
    IF TagMismatch("BreakCfg", data) THEN ExpectedType
    ELSE IF ~HasKey(data, "value") THEN Raise("KeyError", "value")
    ELSE LET value == data.v.value IN
         IF value.k = "dict"
         THEN IF ~HasKey(value, "break_duration")
              THEN Raise("KeyError", "break_duration")
              ELSE LET break_duration == Range_from_json(value.v.break_duration) IN
                   IF ~break_duration.ok THEN break_duration
                   ELSE IF ~HasKey(value, "break_chance")
                   THEN Raise("KeyError", "break_chance")
                   ELSE BreakCfgParam(break_duration.val, value.v.break_chance)
         ELSE BreakCfg_load(value)
----------------------------------------------------------------------------
(* WaypointParam and RouteParam *)

\* WaypointParam.__init__
WaypointParam(x, y, z, chunk, tolerance) ==
    Obj("Waypoint", [x |-> x, y |-> y, z |-> z, chunk |-> chunk,
                     tolerance |-> tolerance])

\* WaypointParam.load: [[x, y, z], chunk, tolerance], [[x, y, z], chunk] or
\* [x, y, z, chunk]
Waypoint_load(value) ==
    IF value.k = "dict" THEN Raise("KeyError", "0")
    ELSE IF value.k \notin {"list", "tuple", "str"}
    THEN Raise("TypeError", "object is not subscriptable")
    ELSE IF Len(value.v) = 0 THEN Raise("IndexError", "index out of range")
    ELSE IF value.k # "str" /\ value.v[1].k = "list"
    THEN LET coords == value.v[1].v IN
         IF Len(coords) # 3
         THEN Raise("ValueError", "Waypoint coordinates must include x, y, and z values.")
         ELSE IF Len(value.v) < 2
         THEN Raise("ValueError", "Waypoint must include chunk value.")
         ELSE Ok(WaypointParam(coords[1], coords[2], coords[3], value.v[2],
                               IF Len(value.v) > 2 THEN value.v[3]
                               ELSE Integer(DefaultTolerance)))
    ELSE IF Len(value.v) = 4
    THEN IF value.k = "str"
         THEN Ok(WaypointParam(Str(<<value.v[1]>>), Str(<<value.v[2]>>),
                               Str(<<value.v[3]>>), Str(<<value.v[4]>>),
                               Integer(DefaultTolerance)))
         ELSE Ok(WaypointParam(value.v[1], value.v[2], value.v[3], value.v[4],
                               Integer(DefaultTolerance)))
    ELSE Raise("ValueError", "Invalid waypoint format.")

\* WaypointParam.to_json
Waypoint_to_json(w) ==
    Dict([type |-> Tag("Waypoint"),
          value |-> Dict([x |-> w.f.x, y |-> w.f.y, z |-> w.f.z,
                          chunk |-> w.f.chunk, tolerance |-> w.f.tolerance])])

\* WaypointParam.from_json
Waypoint_from_json(data) ==
    IF TagMismatch("Waypoint", data) THEN ExpectedType
    ELSE IF ~HasKey(data, "value") THEN Raise("KeyError", "value")
    ELSE LET value == data.v.value IN
         IF value.k = "dict"
         THEN IF {"x", "y", "z", "chunk"} \subseteq DOMAIN value.v
              THEN Ok(WaypointParam(value.v.x, value.v.y, value.v.z,
                                    value.v.chunk,
                                    Get(value, "tolerance", Integer(DefaultTolerance))))
              ELSE Raise("KeyError", "x, y, z or chunk")
         ELSE Waypoint_load(value)

\* RouteParam.__init__
RouteParam(waypoints) == Obj("Route", [waypoints |-> List(waypoints)])

\* applies the decoder of one element to the elements of a sequence, in
\* order, up to the first that raises: Ok(<<decoded, ...>>) or the exception
RECURSIVE DecodeAll(_, _)
DecodeAll(results, acc) ==
    IF results = << >> THEN Ok(acc)
    ELSE IF ~Head(results).ok THEN Head(results)
    ELSE DecodeAll(Tail(results), Append(acc, Head(results).val))

\* RouteParam.load
Route_load(value) ==
    IF value.k \notin {"list", "tuple"}
    THEN Raise("TypeError", "object is not iterable")
    ELSE LET waypoints ==
                 DecodeAll([i \in 1 .. Len(value.v) |-> Waypoint_load(value.v[i])],
                           << >>) IN
         IF waypoints.ok THEN Ok(RouteParam(waypoints.val)) ELSE waypoints

\* mutant of reverse: the last waypoint is lost
reverse_DropsLast(route) ==
    LET w == route.f.waypoints.v IN
    RouteParam([i \in 1 .. (Len(w) - 1) |-> w[Len(w) - i]])

\* RouteParam.reverse
reverse(route) ==
    LET w == route.f.waypoints.v IN
    RouteParam([i \in 1 .. Len(w) |-> w[Len(w) + 1 - i]])

\* RouteParam.to_json
Route_to_json(route) ==
    LET w == route.f.waypoints.v IN
    Dict([type |-> Tag("Route"),
          value |-> List([i \in 1 .. Len(w) |-> Waypoint_to_json(w[i])])])

\* RouteParam.from_json: a tagged element goes to WaypointParam.from_json, any
\* other to WaypointParam.load
Route_from_json(data) ==
    IF TagMismatch("Route", data) THEN ExpectedType
    ELSE IF ~HasKey(data, "value") THEN Raise("KeyError", "value")
    ELSE LET value == data.v.value IN
         IF value.k \notin {"list", "tuple"}
         THEN Raise("TypeError", "unsupported Route value")
         ELSE LET waypoints ==
                    DecodeAll([i \in 1 .. Len(value.v) |->
                                  IF value.v[i].k = "dict"
                                      /\ Get(value.v[i], "type", PyNone) = Tag("Waypoint")
                                  THEN Waypoint_from_json(value.v[i])
                                  ELSE Waypoint_load(value.v[i])],
                              << >>) IN
              IF waypoints.ok THEN Ok(RouteParam(waypoints.val)) ELSE waypoints

----------------------------------------------------------------------------
(* ItemParam and the item database of core/item_db.py *)

s_coins == <<"C", "o", "i", "n", "s">>
s_logs == <<"L", "o", "g", "s">>

\* str.lower() over the characters that occur in the model
lower_char(ch) ==
    CASE ch = "C" -> "c"
      [] ch = "L" -> "l"
      [] ch = "O" -> "o"
      [] ch = "T" -> "t"
      [] ch = "Y" -> "y"
      [] ch = "N" -> "n"
      [] OTHER -> ch
lower(s) == [i \in 1 .. Len(s) |-> lower_char(s[i])]

\* the Item rows ItemLookup._load_data keeps, in load order; two ids carry
\* the name "Coins"
ItemRows ==
    << [id |-> 617, name |-> s_coins, stackable |-> TRUE, equipable |-> FALSE,
        tradeable_on_ge |-> FALSE, members |-> FALSE, cost |-> 1,
        highalch |-> 0, lowalch |-> 0],
       [id |-> 995, name |-> s_coins, stackable |-> TRUE, equipable |-> FALSE,
        tradeable_on_ge |-> FALSE, members |-> FALSE, cost |-> 1,
        highalch |-> 0, lowalch |-> 0],
       [id |-> 1511, name |-> s_logs, stackable |-> FALSE, equipable |-> FALSE,
        tradeable_on_ge |-> TRUE, members |-> FALSE, cost |-> 4,
        highalch |-> 2, lowalch |-> 1] >>

\* the last row of ItemRows among the indices hits, as the dicts
\* _items_by_id and _items_by_name keep the last row stored under a key
LastRow(hits) ==
    IF hits = {} THEN PyNone
    ELSE Obj("ItemRow", ItemRows[CHOOSE i \in hits : \A j \in hits : j <= i])

\* ItemLookup.get_item_by_id
get_item_by_id(item_id) ==
    LastRow({i \in 1 .. Len(ItemRows) : ItemRows[i].id = item_id})

\* ItemLookup.get_item_by_name
get_item_by_name(name) ==
    LastRow({i \in 1 .. Len(ItemRows) : lower(ItemRows[i].name) = lower(name)})

\* ItemParam.__init__: the identifier is an id, a name or an Item
ItemParam(item_identifier) ==
    IF item_identifier.k \in {"int", "bool"}
    THEN LET item == get_item_by_id(Scaled(item_identifier) \div FloatScale) IN
         IF item = PyNone THEN Raise("ValueError", "Item with ID not found in database")
         ELSE Ok(Obj("Item", [item |-> item, original_identifier |-> item_identifier]))
    ELSE IF item_identifier.k = "str"
    THEN LET item == get_item_by_name(item_identifier.v) IN
         IF item = PyNone THEN Raise("ValueError", "Item with name not found in database")
         ELSE Ok(Obj("Item", [item |-> item, original_identifier |-> item_identifier]))
    ELSE IF item_identifier.k = "obj" /\ item_identifier.cls = "ItemRow"
    THEN Ok(Obj("Item", [item |-> item_identifier,
                         original_identifier |-> item_identifier]))
    ELSE Raise("ValueError", "Invalid item identifier type")

\* ItemParam.load
Item_load(value) ==
    IF value.k \in {"int", "bool", "str"} THEN ItemParam(value)
    ELSE IF value.k = "dict"
    THEN IF HasKey(value, "id") THEN ItemParam(value.v.id)
         ELSE IF HasKey(value, "name") THEN ItemParam(value.v.name)
         ELSE Raise("ValueError", "Item dictionary must contain 'id' or 'name' key")
    ELSE Raise("ValueError", "Item value must be an int (ID), str (name), or dict with id/name")

\* ItemParam.to_json
Item_to_json(x) ==
    LET row == x.f.item.f IN
    Dict([type |-> Tag("Item"),
          value |-> Dict([id |-> Integer(row.id), name |-> Str(row.name),
                          stackable |-> Bool(row.stackable),
                          equipable |-> Bool(row.equipable),
                          tradeable_on_ge |-> Bool(row.tradeable_on_ge),
                          members |-> Bool(row.members),
                          cost |-> Integer(row.cost),
                          highalch |-> Integer(row.highalch),
                          lowalch |-> Integer(row.lowalch)])])

\* ItemParam.from_json: the id is preferred over the name
Item_from_json(data) ==
    IF TagMismatch("Item", data) THEN ExpectedType
    ELSE IF ~HasKey(data, "value") THEN Raise("KeyError", "value")
    ELSE LET value == data.v.value IN
         IF value.k = "dict"
         THEN IF HasKey(value, "id") THEN ItemParam(value.v.id)
              ELSE IF HasKey(value, "name") THEN ItemParam(value.v.name)
              ELSE Raise("ValueError", "Item JSON value must contain 'id' or 'name'")
         ELSE Item_load(value)
----------------------------------------------------------------------------
(* BooleanParam, StringParam, IntParam, FloatParam, StringListParam,       *)
(* RGBListParam                                                            *)

\* BooleanParam.__init__: bool(value)
BooleanParam(value) == Ok(Obj("Boolean", [value |-> Bool(PyBool(value))]))

\* StringParam.__init__: str(value)
StringParam(value) == Ok(Obj("String", [value |-> PyStr(value)]))

\* IntParam.__init__: int(value)
IntParam(value) ==
    LET n == PyInt(value) IN
    IF n.ok THEN Ok(Obj("Int", [value |-> n.val])) ELSE n

\* FloatParam.__init__: float(value)
FloatParam(value) ==
    LET x == PyFloat(value) IN
    IF x.ok THEN Ok(Obj("Float", [value |-> x.val])) ELSE x

\* list(value) of an iterable
PyList(value) ==
    CASE value.k \in {"list", "tuple"} -> Ok(List(value.v))
      [] value.k = "str" -> Ok(List([i \in 1 .. Len(value.v) |-> Str(<<value.v[i]>>)]))
      [] OTHER -> Raise("TypeError", "object is not iterable")

\* StringListParam.__init__ and RGBListParam.__init__:
\* list(value) if value else []
ListParam(c, value) ==
    IF ~PyBool(value) THEN Ok(Obj(c, [value |-> List(<< >>)]))
    ELSE LET l == PyList(value) IN
         IF l.ok THEN Ok(Obj(c, [value |-> l.val])) ELSE l

StringListParam(value) == ListParam("StringList", value)
RGBListParam(value) == ListParam("RGBList", value)

\* to_json of BooleanParam, StringParam, IntParam, FloatParam and
\* StringListParam: the tag and the stored value
Scalar_to_json(x) == Dict([type |-> Tag(x.cls), value |-> x.f.value])

\* from_json of the scalar classes: the tag check, then cls(data["value"])
Boolean_from_json(data) ==
    IF TagMismatch("Boolean", data) THEN ExpectedType
    ELSE IF ~HasKey(data, "value") THEN Raise("KeyError", "value")
    ELSE BooleanParam(data.v.value)

String_from_json(data) ==
    IF TagMismatch("String", data) THEN ExpectedType
    ELSE IF ~HasKey(data, "value") THEN Raise("KeyError", "value")
    ELSE StringParam(data.v.value)

Int_from_json(data) ==
    IF TagMismatch("Int", data) THEN ExpectedType
    ELSE IF ~HasKey(data, "value") THEN Raise("KeyError", "value")
    ELSE IntParam(data.v.value)

Float_from_json(data) ==
    IF TagMismatch("Float", data) THEN ExpectedType
    ELSE IF ~HasKey(data, "value") THEN Raise("KeyError", "value")
    ELSE FloatParam(data.v.value)

StringList_from_json(data) ==
    IF TagMismatch("StringList", data) THEN ExpectedType
    ELSE IF ~HasKey(data, "value") THEN Raise("KeyError", "value")
    ELSE StringListParam(data.v.value)

\* RGBListParam.to_json
RGBList_to_json(x) ==
    LET l == x.f.value.v IN
    Dict([type |-> Tag("RGBList"),
          value |-> List([i \in 1 .. Len(l) |-> RGB_to_json(l[i])])])

\* RGBListParam.from_json: a tagged element goes to RGBParam.from_json, any
\* other to RGBParam.from_tuple
RGBList_from_json(data) ==
    IF TagMismatch("RGBList", data) THEN ExpectedType
    ELSE IF ~HasKey(data, "value") THEN Raise("KeyError", "value")
    ELSE LET value == data.v.value IN
         IF value.k \notin {"list", "tuple"}
         THEN Raise("TypeError", "unsupported RGBList value")
         ELSE LET rgb_params ==
                    DecodeAll([i \in 1 .. Len(value.v) |->
                                  IF value.v[i].k = "dict"
                                      /\ Get(value.v[i], "type", PyNone) = Tag("RGB")
                                  THEN RGB_from_json(value.v[i])
                                  ELSE IF value.v[i].k \in {"list", "tuple"}
                                  THEN from_tuple(Tuple(value.v[i].v))
                                  ELSE Raise("TypeError", "object is not iterable")],
                              << >>) IN
              IF rgb_params.ok THEN RGBListParam(List(rgb_params.val))
              ELSE rgb_params

----------------------------------------------------------------------------
(* Dispatch on the class, as a method call does *)

\* v.to_json()
to_json(v) ==
    CASE v.cls = "RGB" -> RGB_to_json(v)
      [] v.cls = "Range" -> Range_to_json(v)
      [] v.cls = "BreakCfg" -> BreakCfg_to_json(v)
      [] v.cls = "Waypoint" -> Waypoint_to_json(v)
      [] v.cls = "Route" -> Route_to_json(v)
      [] v.cls = "Item" -> Item_to_json(v)
      [] v.cls = "RGBList" -> RGBList_to_json(v)
      [] OTHER -> Scalar_to_json(v)

\* c.from_json(data)
from_json(c, data) ==
    CASE c = "RGB" -> RGB_from_json(data)
      [] c = "Range" -> Range_from_json(data)
      [] c = "BreakCfg" -> BreakCfg_from_json(data)
      [] c = "Waypoint" -> Waypoint_from_json(data)
      [] c = "Route" -> Route_from_json(data)
      [] c = "Item" -> Item_from_json(data)
      [] c = "Boolean" -> Boolean_from_json(data)
      [] c = "String" -> String_from_json(data)
      [] c = "Int" -> Int_from_json(data)
      [] c = "Float" -> Float_from_json(data)
      [] c = "StringList" -> StringList_from_json(data)
      [] OTHER -> RGBList_from_json(data)

\* c.load(value)
load(c, value) ==
    CASE c = "RGB" -> RGB_load(value)
      [] c = "Range" -> Range_load(value)
      [] c = "BreakCfg" -> BreakCfg_load(value)
      [] c = "Waypoint" -> Waypoint_load(value)
      [] c = "Route" -> Route_load(value)
      [] c = "Item" -> Item_load(value)
      [] c = "Boolean" ->
            IF value.k = "bool" THEN BooleanParam(value)
            ELSE IF value.k = "str"
            THEN BooleanParam(Bool(lower(value.v) \in
                     {<<"t", "r", "u", "e">>, <<"1">>, <<"y", "e", "s">>, <<"o", "n">>}))
            ELSE IF value.k = "int" THEN BooleanParam(Bool(PyBool(value)))
            ELSE Raise("ValueError", "Boolean value must be a bool, str, or int")
      [] c = "String" -> StringParam(PyStr(value))
      [] c = "Int" ->
            LET n == PyInt(value) IN IF n.ok THEN IntParam(n.val) ELSE n
      [] c = "Float" ->
            LET x == PyFloat(value) IN IF x.ok THEN FloatParam(x.val) ELSE x
      [] c = "StringList" -> StringListParam(value)
      [] OTHER ->
            IF value.k \notin {"list", "tuple"}
            THEN Raise("TypeError", "object is not iterable")
            ELSE LET rgb_params ==
                       DecodeAll([i \in 1 .. Len(value.v) |->
                                     IF value.v[i].k \in {"list", "tuple"}
                                     THEN from_tuple(Tuple(value.v[i].v))
                                     ELSE Raise("TypeError", "object is not iterable")],
                                 << >>) IN
                 IF rgb_params.ok THEN RGBListParam(List(rgb_params.val))
                 ELSE rgb_params
----------------------------------------------------------------------------
(* The values the codec and the container are exercised with *)

MaxRouteLen == 2
MaxListLen == 2

SeqsUpTo(S, n) == UNION {[1 .. m -> S] : m \in 0 .. n}

Channels == {0, 10, 255}
Colors == {RGBParam(Integer(r), Integer(g), Integer(b)).val : r, g, b \in Channels}

\* 1, 0.4 and 1.4
Numbers == {Integer(1), Float(4), Float(14)}
Ranges == {RangeParam(a, b) : a, b \in Numbers}

\* 0.0, 0.5 and the int 1
Chances == {Float(0), Float(5), Integer(1)}
BreakCfgs == {BreakCfgParam(r, c).val : r \in Ranges, c \in Chances}

Waypoints ==
    {WaypointParam(Integer(x), Integer(20), Integer(z), Integer(1234), Integer(t)) :
        x \in {10, 30}, z \in {0, 1}, t \in {DefaultTolerance, 8}}
RouteWaypoints ==
    {WaypointParam(Integer(x), Integer(20), Integer(0), Integer(1234), Integer(DefaultTolerance)) :
        x \in {10, 30}}
Routes == {RouteParam(s) : s \in SeqsUpTo(RouteWaypoints, MaxRouteLen)}

\* items are referred to by id, by name in any case, or by an Item row of
\* the database
ItemIdentifiers ==
    {Integer(617), Integer(995), Integer(1511), Str(s_coins), Str(lower(s_coins)),
     Str(s_logs)} \cup {get_item_by_id(ItemRows[i].id) : i \in 1 .. Len(ItemRows)}
Items == {ItemParam(x).val : x \in ItemIdentifiers}

Booleans == {BooleanParam(Bool(b)).val : b \in BOOLEAN}
Strings == {StringParam(Str(s)).val : s \in {<< >>, s_coins, s_logs}}
Ints == {IntParam(Integer(n)).val : n \in {-3, 0, 7}}
Floats == {FloatParam(x).val : x \in {Float(-25), Integer(0), Float(5)}}
StringLists ==
    {StringListParam(List(s)).val :
        s \in SeqsUpTo({Str(s_coins), Str(s_logs)}, MaxListLen)}
ListColors == {RGBParam(Integer(c), Integer(10), Integer(255)).val : c \in {0, 255}}
RGBLists ==
    {RGBListParam(List(s)).val : s \in SeqsUpTo(ListColors, MaxListLen)}

\* every valid instance of the twelve classes within the bounds
Values ==
    Colors \cup Ranges \cup BreakCfgs \cup Waypoints \cup Routes \cup Items
        \cup Booleans \cup Strings \cup Ints \cup Floats \cup StringLists
        \cup RGBLists

\* the fields two instances are compared by: ItemParam.__eq__ compares the
\* ids, every other class its stored attributes
CanonicalFields(x) ==
    IF x.cls = "Item" THEN [id |-> x.f.item.f.id] ELSE x.f

----------------------------------------------------------------------------
(* The codec: an instance is exported by to_json and a wire object is      *)
(* decoded by the from_json of some class                                  *)

\* tag values a wire object that was not written by to_json may carry
OtherTags(tag) ==
    {Str(<<"B", "o", "g", "u", "s">>), Str(lower(tag.v)), PyNone} \ {tag}

\* val.to_json()
ToJson ==
    /\ val # PyNone
    /\ wire = PyNone
    /\ wire' = to_json(val)
    /\ UNCHANGED <<val, decoder, decoded>>
    /\ UNCHANGED <<ctlVars, routineVars, listenerVars, uiVars, botVars, cfgVars>>

\* a wire object arrives without the "type" key
StripTag ==
    /\ wire # PyNone
    /\ decoder = "none"
    /\ "type" \in DOMAIN wire.v
    /\ wire' = Dict([key \in DOMAIN wire.v \ {"type"} |-> wire.v[key]])
    /\ UNCHANGED <<val, decoder, decoded>>
    /\ UNCHANGED <<ctlVars, routineVars, listenerVars, uiVars, botVars, cfgVars>>

\* a wire object arrives with the tag of no class
Retag ==
    /\ wire = to_json(val)
    /\ decoder = "none"
    /\ \E tag \in OtherTags(wire.v.type) :
          wire' = Dict([wire.v EXCEPT !.type = tag])
    /\ UNCHANGED <<val, decoder, decoded>>
    /\ UNCHANGED <<ctlVars, routineVars, listenerVars, uiVars, botVars, cfgVars>>

\* c.from_json(wire) for one of the twelve classes
FromJson ==
    /\ wire # PyNone
    /\ decoder = "none"
    /\ \E c \in TYPES :
          /\ decoder' = c
          /\ decoded' = from_json(c, wire)
    /\ UNCHANGED <<val, wire>>
    /\ UNCHANGED <<ctlVars, routineVars, listenerVars, uiVars, botVars, cfgVars>>
----------------------------------------------------------------------------
(* The configuration container: BotConfigMixin of bots/core/config.py.     *)
(* A container and a config dict are sequences of [name, value] in         *)
(* attribute / key order.                                                  *)

\* TYPE_MAP: the tags import_config knows
TYPE_MAP == {"RGB", "Range", "BreakCfg", "Waypoint", "Route", "Item"}

\* isinstance(x, CFG_TYPES)
IsCfgType(x) == x.k = "obj" /\ x.cls \in TYPES

\* isinstance(value, type(current_value)) for a current value of type int,
\* float, str or bool; bool is a subclass of int
IsInstanceOfTypeOf(value, current_value) ==
    \/ value.k = current_value.k
    \/ (current_value.k = "int" /\ value.k = "bool")

\* the methods of BotConfigMixin, which every container inherits
MethodNames == {"import_config", "export_config"}
Method == [k |-> "method"]

\* the instance's own and annotated attributes are the sequence c; hasattr
\* and getattr also find the methods of the class
InDict(c, key) == \E i \in 1 .. Len(c) : c[i].name = key
HasAttr(c, key) == InDict(c, key) \/ key \in MethodNames
GetAttr(c, key) ==
    IF InDict(c, key) THEN c[CHOOSE i \in 1 .. Len(c) : c[i].name = key].value
    ELSE Method
\* (mutant) setattr that stores nothing
SetAttr_Dropped(c, key, value) == c

\* setattr rebinds an attribute of the instance, or creates it
SetAttr(c, key, value) ==
    IF InDict(c, key)
    THEN [i \in 1 .. Len(c) |-> IF c[i].name = key
                                THEN [c[i] EXCEPT !.value = value] ELSE c[i]]
    ELSE Append(c, [name |-> key, value |-> value])

\* key.startswith('_')
PrivateNames == {"_user"}

\* (mutant) a tag TYPE_MAP lacks is read as the first class
TypeMapClass_Fallback(param_type) ==
    IF \E c \in TYPE_MAP : Tag(c) = param_type
    THEN CHOOSE c \in TYPE_MAP : Tag(c) = param_type
    ELSE "RGB"

\* the class whose tag is the str param_type, if TYPE_MAP has it
TypeMapClass(param_type) ==
    IF \E c \in TYPE_MAP : Tag(c) = param_type
    THEN CHOOSE c \in TYPE_MAP : Tag(c) = param_type
    ELSE "none"

\* the body of import_config's loop for one item of config: Ok(new value of
\* the attribute) or the exception raised
ImportValue(c, key, value) ==
    IF ~HasAttr(c, key) THEN Raise("KeyError", "Config key not found in bot configuration.")
    ELSE LET current_value == GetAttr(c, key) IN
    IF HasKey(value, "type")
    THEN IF TypeMapClass(value.v.type) # "none"
         THEN from_json(TypeMapClass(value.v.type), value)
         ELSE Raise("ValueError", "Unknown parameter type")
    ELSE IF current_value.k \in {"int", "float", "str", "bool"}
    THEN IF IsInstanceOfTypeOf(value, current_value) THEN Ok(value)
         ELSE Raise("TypeError", "Type mismatch")
    ELSE IF current_value.k = "list"
    THEN IF value.k = "list"
         THEN IF Len(current_value.v) > 0 /\ IsCfgType(current_value.v[1])
              THEN LET param_class == current_value.v[1].cls
                       new_list ==
                           DecodeAll([i \in 1 .. Len(value.v) |->
                                         IF HasKey(value.v[i], "type")
                                         THEN from_json(param_class, value.v[i])
                                         ELSE load(param_class, value.v[i])],
                                     << >>) IN
                   IF new_list.ok THEN Ok(List(new_list.val)) ELSE new_list
              ELSE Ok(value)
         ELSE Raise("TypeError", "Expected list")
    ELSE IF IsCfgType(current_value)
    THEN IF value.k = "dict" THEN from_json(current_value.cls, value)
         ELSE load(current_value.cls, value)
    ELSE Raise("TypeError", "Unsupported config type")

\* import_config: the items are applied in order up to the first that
\* raises; what was set before stays set
RECURSIVE import_config(_, _)
import_config(c, config) ==
    IF config = << >> THEN [cfg |-> c, result |-> Ok(PyNone)]
    ELSE LET item == Head(config)
             new == ImportValue(c, item.name, item.value) IN
         IF new.ok THEN import_config(SetAttr(c, item.name, new.val), Tail(config))
         ELSE [cfg |-> c, result |-> new]

\* what export_config stores for one attribute
ExportValue(value) ==
    IF IsCfgType(value) THEN to_json(value)
    ELSE IF value.k = "list" /\ Len(value.v) > 0 /\ IsCfgType(value.v[1])
    THEN List([i \in 1 .. Len(value.v) |-> to_json(value.v[i])])
    ELSE IF value.k \in {"int", "float", "str", "bool", "list"} THEN value
    ELSE PyStr(value)

\* export_config: every attribute but the private ones and the callables
export_config(c) ==
    LET public == SelectSeq(c, LAMBDA a : a.name \notin PrivateNames
                                           /\ a.value.k # "method") IN
    [i \in 1 .. Len(public) |->
        [name |-> public[i].name, value |-> ExportValue(public[i].value)]]

\* one instance of each class, and a second of some, as attribute values
Samples ==
    {x \in Values :
        \/ x.cls = "RGB" /\ x.f.r.v = 10 /\ x.f.g.v = 255 /\ x.f.b.v \in {0, 10}
        \/ x.cls = "Range" /\ x.f.min_value = Float(4) /\ x.f.max_value = Float(14)
        \/ x.cls = "BreakCfg" /\ x.f.break_duration.f.min_value = Integer(1)
               /\ x.f.break_duration.f.max_value = Float(14)
               /\ x.f.break_chance = Float(5)
        \/ x.cls = "Waypoint" /\ x.f.x.v = 10 /\ x.f.z.v = 1
        \/ x.cls = "Route" /\ Len(x.f.waypoints.v) = MaxRouteLen
               /\ x.f.waypoints.v[1] # x.f.waypoints.v[MaxRouteLen]
        \/ x.cls = "Item" /\ x.f.original_identifier \in {Integer(995), Str(s_logs)}
        \/ x.cls = "Boolean" /\ x.f.value.v
        \/ x.cls = "String" /\ x.f.value.v = s_logs
        \/ x.cls = "Int" /\ x.f.value.v = 7
        \/ x.cls = "Float" /\ x.f.value.v = 5
        \/ x.cls = "StringList" /\ Len(x.f.value.v) = 1
        \/ x.cls = "RGBList" /\ Len(x.f.value.v) = 1}

\* the sequences of instances of one class
SampleLists ==
    {s \in SeqsUpTo(Samples, MaxListLen) :
        \A i \in 1 .. Len(s) : s[i].cls = s[1].cls}

\* a BotConfig: a private attribute, one attribute of each primitive type,
\* a list of primitives, one Value Type attribute and a list of Value Types
Container(enabled, count, names, param, params) ==
    << [name |-> "_user", value |-> Str(s_logs)],
       [name |-> "enabled", value |-> Bool(enabled)],
       [name |-> "count", value |-> Integer(count)],
       [name |-> "delay", value |-> Float(5)],
       [name |-> "name", value |-> Str(s_coins)],
       [name |-> "names", value |-> List(names)],
       [name |-> "param", value |-> param],
       [name |-> "params", value |-> List(params)] >>

Containers ==
    {Container(enabled, count, names, param, params) :
        enabled \in BOOLEAN, count \in {0, 7},
        names \in {<< >>, <<Str(s_coins), Str(s_logs)>>},
        param \in Samples, params \in SampleLists}

\* cfg.export_config()
Export ==
    /\ container # << >>
    /\ exported = PyNone
    /\ exported' = List(export_config(container))
    /\ UNCHANGED <<container, import_result, before, updates, declared, imports>>
    /\ UNCHANGED <<ctlVars, routineVars, listenerVars, uiVars, botVars, codecVars>>

\* cfg.import_config(exported)
ImportExported ==
    /\ exported # PyNone
    /\ import_result = PyNone
    /\ before' = container
    /\ LET out == import_config(container, exported.v) IN
       /\ container' = out.cfg
       /\ import_result' = out.result
    /\ updates' = exported.v
    /\ imports' = imports + 1
    /\ UNCHANGED <<exported, declared>>
    /\ UNCHANGED <<ctlVars, routineVars, listenerVars, uiVars, botVars, codecVars>>
----------------------------------------------------------------------------
(* Calls of import_config and export_config on one container, in any order *)

MaxImports == 2

s_bogus == <<"B", "o", "g", "u", "s">>

\* incoming values: loose encodings, tagged wire objects and mappings
LooseColor == List(<<Integer(10), Integer(0), Integer(255)>>)
HexColor == Str(<<"#", "0", "0", "0", "A", "F", "F">>)
TaggedColor == to_json(RGBParam(Integer(0), Integer(10), Integer(255)).val)
TaggedRange == to_json(RangeParam(Integer(1), Float(14)))
TaggedBoolean == to_json(BooleanParam(Bool(FALSE)).val)
TaggedBogus ==
    Dict([type |-> Str(s_bogus),
          value |-> List(<<Integer(1), Integer(2), Integer(3)>>)])
ItemMapping == Dict([id |-> Integer(995)])

\* the values offered to each key
UpdateValues(key) ==
    CASE key = "enabled" -> {Bool(FALSE), Integer(995)}
      [] key = "count" -> {Integer(995), Bool(FALSE), Str(s_logs)}
      [] key = "delay" -> {Float(14), Integer(995)}
      [] key = "name" -> {Str(s_logs), Integer(995), TaggedRange}
      [] key = "names" -> {List(<<Str(s_logs)>>), List(<< >>), Integer(995)}
      [] key = "param" -> {LooseColor, HexColor, Str(s_logs), TaggedColor,
                           TaggedRange, TaggedBoolean, TaggedBogus,
                           ItemMapping, Integer(995), Bool(FALSE)}
      [] key = "params" -> {List(<< >>), List(<<LooseColor, TaggedColor>>),
                            LooseColor, List(<<LooseColor, Str(s_logs)>>),
                            Integer(995)}
      [] key = "_user" -> {Str(s_coins)}
      [] key = "export_config" -> {Integer(995), TaggedColor}
      [] OTHER -> {Integer(995)}

UpdateKeys == {"enabled", "count", "delay", "name", "names", "param", "params",
               "_user", "export_config", "missing"}

UpdateItems(keys) ==
    UNION {{[name |-> key, value |-> v] : v \in UpdateValues(key)} : key \in keys}

\* config dicts of one key, and of two keys in their order of iteration
Updates ==
    {<<a>> : a \in UpdateItems(UpdateKeys)}
        \cup {<<a, b>> : a \in UpdateItems({"count"}), b \in UpdateItems({"params"})}

\* the containers the calls are made on
ImportContainers ==
    {c \in Containers :
        /\ GetAttr(c, "enabled").v /\ GetAttr(c, "count").v = 7
        /\ Len(GetAttr(c, "names").v) > 0
        /\ GetAttr(c, "param").cls \in {"RGB", "Item", "Boolean"}
        /\ GetAttr(c, "param") \notin {RGBParam(Integer(10), Integer(255), Integer(10)).val,
                                       ItemParam(Str(s_logs)).val}
        /\ GetAttr(c, "params").v = <<RGBParam(Integer(10), Integer(255), Integer(0)).val>>}

\* (mutant) export_config that stores the exported form back in the instance
ExportCall_WritesBack(c) ==
    [cfg |-> [i \in 1 .. Len(c) |->
                 [name |-> c[i].name, value |-> ExportValue(c[i].value)]],
     result |-> Ok(List(export_config(c)))]

\* the call cfg.export_config(): the method is found unless an attribute of
\* the instance shadows it
ExportCall(c) ==
    IF GetAttr(c, "export_config") # Method
    THEN [cfg |-> c, result |-> Raise("TypeError", "object is not callable")]
    ELSE [cfg |-> c, result |-> Ok(List(export_config(c)))]

\* cfg.import_config(config)
ImportUpdates ==
    /\ container # << >>
    /\ imports < MaxImports
    /\ \E config \in Updates :
        LET out == import_config(container, config) IN
        /\ before' = container
        /\ container' = out.cfg
        /\ import_result' = out.result
        /\ updates' = config
    /\ imports' = imports + 1
    /\ UNCHANGED <<exported, declared>>
    /\ UNCHANGED <<ctlVars, routineVars, listenerVars, uiVars, botVars, codecVars>>

\* snapshot = cfg.export_config()
ExportSnapshot ==
    /\ container # << >>
    /\ LET out == ExportCall(container) IN
       /\ container' = out.cfg
       /\ exported' = IF out.result.ok THEN out.result.val ELSE exported
    /\ UNCHANGED <<import_result, before, updates, declared, imports>>
    /\ UNCHANGED <<ctlVars, routineVars, listenerVars, uiVars, botVars, codecVars>>
----------------------------------------------------------------------------
(* Construction of RGBParam and WaypointParam from the caller's arguments *)

\* channel arguments: -1, 0, 255, 256, 0.5, True and a str
ChannelArgs == {Integer(-1), Integer(0), Integer(255), Integer(256), Float(5),
                Bool(TRUE), Str(s_logs)}
ChannelTriples == {<<r, g, b>> : r, g, b \in ChannelArgs}

HexArgs ==
    {HexColor,
     Str(<<"0", "0", "0", "a", "f", "f">>),
     Str(<<"#", "#", "F", "F", "0", "0", "0", "A">>),
     Str(<<"#", "F", "F", "F">>),
     Str(<<"#", "G", "G", "0", "0", "0", "0">>),
     Str(<< >>)}

\* wire objects for RGBParam.from_json
ColorWires ==
    {TaggedColor, TaggedRange, TaggedBogus,
     Dict([type |-> Tag("RGB"), value |-> Dict([hex |-> HexColor])]),
     Dict([type |-> Tag("RGB"),
           value |-> Dict([rgb |-> List(<<Integer(0), Float(5), Integer(255)>>)])]),
     Dict([type |-> Tag("RGB"),
           value |-> Dict([rgb |-> List(<<Integer(0), Integer(256), Integer(255)>>)])]),
     Dict([type |-> Tag("RGB"), value |-> LooseColor]),
     Dict([type |-> Tag("RGB"), value |-> Dict([name |-> Str(s_logs)])]),
     Dict([value |-> LooseColor])}

\* arguments of WaypointParam.load: the documented shapes and others
WaypointCoords == List(<<Integer(10), Integer(20), Integer(0)>>)
WaypointArgs ==
    {List(<<WaypointCoords, Integer(1234), Integer(8)>>),
     List(<<WaypointCoords, Integer(1234)>>),
     List(<<Integer(10), Integer(20), Integer(0), Integer(1234)>>),
     List(<< >>),
     List(<<WaypointCoords>>),
     List(<<WaypointCoords, Integer(1234), Integer(8), Integer(9)>>),
     List(<<List(<<Integer(10), Integer(20)>>), Integer(1234)>>),
     List(<<Integer(10), Integer(20), Integer(0)>>),
     List(<<Integer(10), Integer(20), Integer(0), Integer(1234), Integer(8)>>),
     Tuple(<<Integer(10), Integer(20), Integer(0), Integer(1234)>>),
     Str(s_logs), Str(s_coins), Integer(1234), PyNone,
     Dict([x |-> Integer(10), y |-> Integer(20), z |-> Integer(0),
           chunk |-> Integer(1234)])}

ConstructArgs ==
    {List(t) : t \in ChannelTriples} \cup {Tuple(t) : t \in ChannelTriples}
        \cup HexArgs \cup ColorWires \cup WaypointArgs

\* a container whose attribute param holds an RGBParam
ColorContainer ==
    CHOOSE c \in ImportContainers : GetAttr(c, "param").cls = "RGB"

\* the call `path` was made with the arguments wire
Constructed(path, outcome) ==
    /\ decoder' = path
    /\ decoded' = outcome
    /\ UNCHANGED <<val, wire>>
    /\ UNCHANGED <<ctlVars, routineVars, listenerVars, uiVars, botVars, cfgVars>>

\* RGBParam(r, g, b)
NewRGB ==
    /\ decoder = "none"
    /\ wire.k = "tuple" /\ Len(wire.v) = 3
    /\ Constructed("RGBParam", RGBParam(wire.v[1], wire.v[2], wire.v[3]))

\* RGBParam.from_rgb(r, g, b)
FromRgb ==
    /\ decoder = "none"
    /\ wire.k = "tuple" /\ Len(wire.v) = 3
    /\ Constructed("RGBParam.from_rgb", from_rgb(wire.v[1], wire.v[2], wire.v[3]))

\* RGBParam.from_tuple(rgb_tuple)
FromTuple ==
    /\ decoder = "none"
    /\ wire.k \in {"tuple", "list"}
    /\ Constructed("RGBParam.from_tuple", from_tuple(wire))

\* RGBParam.from_hex(hex_color)
FromHex ==
    /\ decoder = "none"
    /\ wire.k = "str"
    /\ Constructed("RGBParam.from_hex", from_hex(wire))

\* RGBParam.load(value)
LoadRGB ==
    /\ decoder = "none"
    /\ Constructed("RGBParam.load", RGB_load(wire))

\* RGBParam.from_json(data)
FromJsonRGB ==
    /\ decoder = "none"
    /\ wire.k = "dict"
    /\ Constructed("RGBParam.from_json", RGB_from_json(wire))

\* cfg.import_config({"param": value}) on a container whose param is an
\* RGBParam: what is stored in param, or the exception
ImportRGB ==
    /\ decoder = "none"
    /\ Constructed("import_config", ImportValue(ColorContainer, "param", wire))

\* WaypointParam.load(value)
LoadWaypoint ==
    /\ decoder = "none"
    /\ Constructed("WaypointParam.load", Waypoint_load(wire))
----------------------------------------------------------------------------
(* Reversal of a route *)

\* the routes that are reversed: up to MaxRouteLen waypoints, the empty route
\* included
ReverseRoutes == {RouteParam(s) : s \in SeqsUpTo(Waypoints, MaxRouteLen)}

\* back = route.reverse(): val is the route, decoded the returned Route
Reverse ==
    /\ decoder = "none"
    /\ val.k = "obj" /\ val.cls = "Route"
    /\ decoder' = "RouteParam.reverse"
    /\ decoded' = Ok(reverse(val))
    /\ UNCHANGED <<val, wire>>
    /\ UNCHANGED <<ctlVars, routineVars, listenerVars, uiVars, botVars, cfgVars>>

\* back.reverse(): wire keeps back, decoded is the Route returned now
ReverseAgain ==
    /\ decoder = "RouteParam.reverse"
    /\ decoder' = "reverse.reverse"
    /\ wire' = decoded.val
    /\ decoded' = Ok(reverse(decoded.val))
    /\ UNCHANGED val
    /\ UNCHANGED <<ctlVars, routineVars, listenerVars, uiVars, botVars, cfgVars>>
----------------------------------------------------------------------------
(* The control specification *)

\* ScriptControl.__init__; no executor has been constructed
ControlInit ==
    /\ terminate = FALSE
    /\ pause = FALSE
    /\ break_until = 0
    /\ break_config = NoBreakCfg
    /\ now = toggle_cooldown
    /\ gpc = "none"
    /\ wake = 0
    /\ invoked = 0
    /\ hist = NoCall
    /\ lpc = "hooked"
    /\ last_pause_toggle = 0
    /\ current_bot = FALSE
    /\ prev = NoPrev
    /\ meta = NoMeta

\* no routine of bots/*.py is followed
NoBot ==
    /\ bot = "routine"
    /\ site = 0
    /\ swallowed = FALSE

\* no value is being encoded or decoded
NoCodec ==
    /\ val = PyNone
    /\ wire = PyNone
    /\ decoder = "none"
    /\ decoded = PyNone

\* no container is being imported or exported
NoContainer ==
    /\ container = << >>
    /\ exported = PyNone
    /\ import_result = PyNone
    /\ before = << >>
    /\ updates = << >>
    /\ declared = << >>
    /\ imports = 0

Init == ControlInit /\ NoBot /\ NoCodec /\ NoContainer

Next ==
    \/ GuardCondTime
    \/ GuardCondPause
    \/ GuardLoopTerm
    \/ GuardWake
    \/ GuardPostTerm
    \/ GuardInvoke
    \/ RoutineCall
    \/ RoutineReturn
    \/ RoutineProposeBreak
    \/ Tick
    \/ KeyEvent
    \/ ListenerExit
    \/ set_terminate
    \/ set_pause
    \/ stop_bot
    \/ start_bot
    \/ control_bot
    \/ bot_monitoring

Spec == Init /\ [][Next]_vars

\* The routine thread is scheduled and time passes.
FairSpec == Spec /\ WF_vars(GuardStep) /\ WF_vars(Tick)

----------------------------------------------------------------------------
(* The bot routines of bots/*.py: the guarded calls and termination checks *)
(* of each routine's loop and the except clauses that enclose them         *)

Bots == {"mining_bot", "item_combiner", "wealth_thiever",
         "tile_wealth_thiever", "focus_camera"}

\* class ScriptTerminationException(Exception) and the built-in classes the
\* routines' except clauses name
ExcParent(c) ==
    CASE c = "ScriptTerminationException" -> "Exception"
      [] c = "RuntimeError" -> "Exception"
      [] c = "ValueError" -> "Exception"
      [] c = "OSError" -> "Exception"
      [] c = "AttributeError" -> "Exception"
      [] c = "LookupError" -> "Exception"
      [] c = "IndexError" -> "LookupError"
      [] c = "FailSafeException" -> "Exception"
      [] c = "Exception" -> "BaseException"
      [] OTHER -> "BaseException"

\* issubclass(c, d)
RECURSIVE IsSubclass(_, _)
IsSubclass(c, d) ==
    IF c = d THEN TRUE
    ELSE IF c = "BaseException" THEN FALSE
    ELSE IsSubclass(ExcParent(c), d)

\* an except clause `except catches:`; its body re-raises the classes of
\* reraises, and otherwise continues the loop, returns from the routine or
\* raises again
Catches(h, exc) == \E c \in h.catches : IsSubclass(exc, c)

OperationalErrors == {"RuntimeError", "ValueError", "OSError"}
NONFATAL_EXC == {"RuntimeError", "ValueError", "OSError", "AttributeError",
                 "IndexError"}

\* mining_bot.py: start
MiningRetry ==
    [line |-> 111, catches |-> OperationalErrors,
     reraises |-> {"ScriptTerminationException"}, then |-> "continue"]
MiningTerminated ==
    [line |-> 125, catches |-> {"ScriptTerminationException"},
     reraises |-> {}, then |-> "return"]
MiningFatal ==
    [line |-> 128, catches |-> OperationalErrors, reraises |-> {},
     then |-> "raise"]
\* wealth_thiever.py: main_loop
WealthRetry ==
    [line |-> 91, catches |-> {"Exception"}, reraises |-> {},
     then |-> "continue"]
\* tile_wealth_thiever.py: main_loop
TileKickoff ==
    [line |-> 71, catches |-> NONFATAL_EXC, reraises |-> {},
     then |-> "continue"]
TileRetry ==
    [line |-> 120, catches |-> NONFATAL_EXC, reraises |-> {},
     then |-> "continue"]
\* focus_camera.py: main_loop
FocusRetry ==
    [line |-> 79, catches |-> {"RuntimeError", "OSError", "FailSafeException"},
     reraises |-> {}, then |-> "continue"]

\* The cancellation points of a routine in program order.  kind "guard" is a
\* call of a function decorated with @control.guard, kind "check" the test
\* `if self.control.terminate: raise ScriptTerminationException()`.
\* handlers are the enclosing except clauses, innermost first; pred the
\* points after which this one can be reached (0: the start of the routine
\* or the point where an except clause resumed the loop); raises what the
\* called code raises by itself.
Sites(b) ==
    CASE b = "mining_bot" ->
           << [line |-> 179, kind |-> "check", pred |-> {0, 1},
               handlers |-> <<MiningRetry, MiningTerminated, MiningFatal>>,
               raises |-> {}] >>
      [] b = "item_combiner" ->
           << [line |-> 65, kind |-> "guard", pred |-> {0, 1},
               handlers |-> << >>, raises |-> {}] >>
      [] b = "wealth_thiever" ->
           << [line |-> 75, kind |-> "guard", pred |-> {0, 1, 2, 3},
               handlers |-> << >>, raises |-> {}],
              [line |-> 82, kind |-> "guard", pred |-> {1},
               handlers |-> <<WealthRetry>>, raises |-> {"RuntimeError"}],
              [line |-> 86, kind |-> "guard", pred |-> {2, 3},
               handlers |-> <<WealthRetry>>, raises |-> {}] >>
      [] b = "tile_wealth_thiever" ->
           << [line |-> 68, kind |-> "guard", pred |-> {0},
               handlers |-> <<TileKickoff>>, raises |-> {}],
              [line |-> 90, kind |-> "guard", pred |-> {0, 1, 2, 3},
               handlers |-> <<TileRetry>>, raises |-> {}],
              [line |-> 100, kind |-> "guard", pred |-> {0, 1, 2, 3},
               handlers |-> <<TileRetry>>, raises |-> {}] >>
      [] OTHER ->
           << [line |-> 109, kind |-> "guard", pred |-> {0, 1, 2},
               handlers |-> <<FocusRetry>>, raises |-> {"RuntimeError"}],
              [line |-> 133, kind |-> "guard", pred |-> {1, 2},
               handlers |-> <<FocusRetry>>, raises |-> {}] >>

\* What becomes of the exception exc raised under the except clauses hs:
\* "continue" (a clause caught it and the loop goes on), "return" (a clause
\* caught it and the routine returns) or "propagate" (it leaves the routine)
RECURSIVE Resolve(_, _)
Resolve(exc, hs) ==
    IF hs = << >> THEN "propagate"
    ELSE LET h == Head(hs) IN
         IF ~Catches(h, exc) THEN Resolve(exc, Tail(hs))
         ELSE IF (\E c \in h.reraises : IsSubclass(exc, c)) \/ h.then = "raise"
         THEN Resolve(exc, Tail(hs))
         ELSE h.then

\* the routine reaches the guarded call of point s
BotCall ==
    /\ gpc = "idle"
    /\ \E s \in 1 .. Len(Sites(bot)) :
          /\ Sites(bot)[s].kind = "guard"
          /\ site \in Sites(bot)[s].pred
          /\ site' = s
    /\ gpc' = "cond_time"
    /\ invoked' = 0
    /\ hist' = NewCall
    /\ UNCHANGED <<ctlVars, wake, listenerVars, uiVars, bot, swallowed>>
    /\ UNCHANGED dataVars

\* the routine reaches the termination check of point s while terminate holds
BotCheck ==
    /\ gpc = "idle"
    /\ terminate
    /\ \E s \in 1 .. Len(Sites(bot)) :
          /\ Sites(bot)[s].kind = "check"
          /\ site \in Sites(bot)[s].pred
          /\ site' = s
    /\ gpc' = "raised"
    /\ UNCHANGED <<ctlVars, wake, invoked, hist, listenerVars, uiVars, bot,
                   swallowed>>
    /\ UNCHANGED dataVars

\* the guarded call returned without error
BotReturn ==
    /\ gpc = "returned"
    /\ gpc' = "idle"
    /\ invoked' = 0
    /\ hist' = NoCall
    /\ UNCHANGED <<ctlVars, wake, listenerVars, uiVars, botVars>>
    /\ UNCHANGED dataVars

\* the code around the guarded call raised an operational error
BotOpError ==
    /\ gpc = "returned"
    /\ \E exc \in Sites(bot)[site].raises :
          LET out == Resolve(exc, Sites(bot)[site].handlers) IN
          /\ gpc' = IF out = "continue" THEN "idle" ELSE "ended"
          /\ site' = 0
    /\ invoked' = 0
    /\ hist' = NoCall
    /\ UNCHANGED <<ctlVars, wake, listenerVars, uiVars, bot, swallowed>>
    /\ UNCHANGED dataVars

\* ScriptTerminationException unwinds from point `site` through the except
\* clauses that enclose it
BotUnwind ==
    /\ gpc = "raised"
    /\ LET out == Resolve("ScriptTerminationException",
                          Sites(bot)[site].handlers) IN
       /\ gpc' = IF out = "continue" THEN "idle" ELSE "ended"
       /\ swallowed' = (swallowed \/ out = "continue")
    /\ site' = 0
    /\ invoked' = 0
    /\ hist' = NoCall
    /\ UNCHANGED <<ctlVars, wake, listenerVars, uiVars, bot>>
    /\ UNCHANGED dataVars

\* BotManager.start_bot has started the routine of one of the bots
InitBots ==
    /\ terminate = FALSE
    /\ pause = FALSE
    /\ break_until = 0
    /\ break_config \in BreakConfigs
    /\ now = toggle_cooldown
    /\ gpc = "idle"
    /\ wake = 0
    /\ invoked = 0
    /\ hist = NoCall
    /\ lpc = "hooked"
    /\ last_pause_toggle = 0
    /\ current_bot = TRUE
    /\ prev = NoPrev
    /\ meta = NoMeta
    /\ bot \in Bots
    /\ site = 0
    /\ swallowed = FALSE
    /\ NoCodec
    /\ NoContainer

\* the control flags are written through the HTTP control plane
NextBots ==
    \/ GuardCondTime
    \/ GuardCondPause
    \/ GuardLoopTerm
    \/ GuardWake
    \/ GuardPostTerm
    \/ GuardInvoke
    \/ BotCall
    \/ BotCheck
    \/ BotReturn
    \/ BotOpError
    \/ BotUnwind
    \/ RoutineProposeBreak
    \/ Tick
    \/ set_terminate
    \/ set_pause

SpecBots == InitBots /\ [][NextBots]_vars

----------------------------------------------------------------------------
(* The codec specification: one instance, exported and decoded *)

InitCodec ==
    /\ ControlInit
    /\ NoBot
    /\ val \in Values
    /\ wire = PyNone
    /\ decoder = "none"
    /\ decoded = PyNone
    /\ NoContainer

NextCodec ==
    \/ ToJson
    \/ StripTag
    \/ Retag
    \/ FromJson

SpecCodec == InitCodec /\ [][NextCodec]_vars

----------------------------------------------------------------------------
(* The container specification: one container, exported and re-imported *)

InitCfg ==
    /\ ControlInit
    /\ NoBot
    /\ NoCodec
    /\ container \in Containers
    /\ exported = PyNone
    /\ import_result = PyNone
    /\ before = << >>
    /\ updates = << >>
    /\ declared = container
    /\ imports = 0

NextCfg ==
    \/ Export
    \/ ImportExported

SpecCfg == InitCfg /\ [][NextCfg]_vars

----------------------------------------------------------------------------
(* The import specification: imports and exports in any order *)

InitImport ==
    /\ ControlInit
    /\ NoBot
    /\ NoCodec
    /\ container \in ImportContainers
    /\ exported = PyNone
    /\ import_result = PyNone
    /\ before = << >>
    /\ updates = << >>
    /\ declared = container
    /\ imports = 0

NextImport ==
    \/ ImportUpdates
    \/ ExportSnapshot

SpecImport == InitImport /\ [][NextImport]_vars

----------------------------------------------------------------------------
(* The construction specification: one call of a constructing function *)

InitConstruct ==
    /\ ControlInit
    /\ NoBot
    /\ NoContainer
    /\ val = PyNone
    /\ wire \in ConstructArgs
    /\ decoder = "none"
    /\ decoded = PyNone

NextConstruct ==
    \/ NewRGB
    \/ FromRgb
    \/ FromTuple
    \/ FromHex
    \/ LoadRGB
    \/ FromJsonRGB
    \/ ImportRGB
    \/ LoadWaypoint

SpecConstruct == InitConstruct /\ [][NextConstruct]_vars

----------------------------------------------------------------------------
(* The reversal specification: a route is reversed, and reversed again *)

InitReverse ==
    /\ ControlInit
    /\ NoBot
    /\ NoContainer
    /\ val \in ReverseRoutes
    /\ wire = PyNone
    /\ decoder = "none"
    /\ decoded = PyNone

NextReverse ==
    \/ Reverse
    \/ ReverseAgain

SpecReverse == InitReverse /\ [][NextReverse]_vars

----------------------------------------------------------------------------
(* The replacement specification: a bot is started, stopped and replaced   *)
(* while its routine thread is alive; both routine threads go on.          *)

NextReplace ==
    \/ GuardCondTime
    \/ GuardCondPause
    \/ GuardLoopTerm
    \/ GuardWake
    \/ GuardPostTerm
    \/ GuardInvoke
    \/ RoutineCall
    \/ RoutineReturn
    \/ Tick
    \/ set_pause
    \/ stop_bot
    \/ start_bot
    \/ replace_bot
    \/ previous_call
    \/ previous_guard
    \/ previous_return

SpecReplace == Init /\ [][NextReplace]_vars

\* both routine threads and the clock keep running
FairSpecReplace ==
    /\ SpecReplace
    /\ WF_vars(GuardStep)
    /\ WF_vars(Tick)
    /\ WF_vars(previous_call)
    /\ WF_vars(previous_guard)
    /\ WF_vars(previous_return)

----------------------------------------------------------------------------
(* The singleton specification: concurrent calls of ScriptControl()        *)

NextSingleton ==
    \/ SingletonCheck
    \/ SingletonCreate
    \/ SingletonStore
    \/ SingletonReturn

SpecSingleton == Init /\ [][NextSingleton]_vars

----------------------------------------------------------------------------
(* Claims about the guard *)

C2_PausedCallRunsOnceAfterResume ==
    /\ [](hist.pauseAtCall =>
            (invoked = 0 /\ gpc \notin {"post_term", "invoke", "returned"}))
    /\ [](invoked <= 1 /\ (gpc = "returned" => invoked = 1))
    /\ ((InCall /\ hist.pausedStart /\ [](~pause /\ ~terminate /\ now >= break_until))
            ~> (gpc = "returned" /\ invoked = 1))

C2_Witness ==
    /\ hist.pausedStart
    /\ hist.slept
    /\ gpc = "returned"
    /\ invoked = 1
    /\ ~pause

\* C3: terminate wins over pause and break: once terminate is written true
\* while a guarded call is inside the wait loop, and stays true, the call
\* never reaches the wrapped operation and it raises, whether the loop sees
\* terminate or the pause/break clears first.
C3_TerminateWinsOverPauseAndBreak ==
    /\ [](hist.termInLoop => (invoked = 0 /\ gpc \notin {"invoke", "returned"}))
    /\ (hist.termInLoop ~> (gpc = "raised" \/ ~terminate))

C3_Witness ==
    /\ hist.termInLoop
    /\ hist.pauseAtCall
    /\ gpc = "raised"
    /\ invoked = 0

\* C4: in every bot routine a cancellation raised by a guarded call or by a
\* termination check leaves the routine: no except clause of the routine
\* catches it and continues the loop.
C4_CancellationNeverSwallowed == ~swallowed

\* C5: terminate is monotone: only the bot-start reset of start_bot takes it
\* from true to false.
C5_TerminateOnlyResetByStartBot ==
    [][(terminate /\ ~terminate') => start_bot]_vars

\* C6: when should_break draws true, propose_break sets
\* break_until = now + d for the drawn duration d, which lies within
\* [now + min, now + max].
C6_BreakUntilIsNowPlusDuration ==
    [][\A r \in RandomDraws : \A d \in Durations :
          (ProposeBreakWith(r, d) /\ break_config # NoBreakCfg
                /\ should_break(break_config, r))
             => /\ break_until' = now + d
                /\ now + break_config.lo <= break_until'
                /\ break_until' <= now + break_config.hi]_vars

----------------------------------------------------------------------------
(* Claims about the Value Types and the container *)

\* C8: for each of the twelve classes and every valid value v,
\* from_json(to_json(v)) succeeds and yields an instance of the same class
\* with the same canonical fields.
C8_RoundTrip ==
    (decoder = val.cls /\ wire = to_json(val)) =>
        /\ decoded.ok
        /\ decoded.val.cls = val.cls
        /\ CanonicalFields(decoded.val) = CanonicalFields(val)

C8_Witness ==
    /\ decoder = "RGB"
    /\ val.cls = "RGB"
    /\ val.f.r.v = 10
    /\ wire = to_json(val)
    /\ decoded.ok
    /\ decoded.val = val

\* C9: from_json of any class, given a wire object whose type tag is absent
\* or is not the class's tag, raises the tag-mismatch ValueError and
\* constructs nothing, whatever the payload.
C9_TagMismatchRejected ==
    (decoder # "none" /\ (~HasKey(wire, "type") \/ wire.v.type # Tag(decoder)))
        => decoded = ExpectedType

C9_Witness ==
    /\ decoder = val.cls
    /\ ~HasKey(wire, "type")
    /\ wire.v.value = to_json(val).v.value
    /\ decoded = ExpectedType

\* the attributes of a container by the fields their values are compared by
CanonicalValue(x) ==
    IF x.k = "obj" THEN [cls |-> x.cls, f |-> CanonicalFields(x)]
    ELSE IF x.k = "list"
    THEN [i \in 1 .. Len(x.v) |->
             IF x.v[i].k = "obj"
             THEN [cls |-> x.v[i].cls, f |-> CanonicalFields(x.v[i])]
             ELSE x.v[i]]
    ELSE x
CanonicalContainer(c) ==
    [i \in 1 .. Len(c) |-> [name |-> c[i].name, value |-> CanonicalValue(c[i].value)]]

\* C10: for a container whose attributes are all of supported types,
\* import_config(export_config()) succeeds and leaves every attribute's
\* value unchanged.
C10_ImportExportFixedPoint ==
    (import_result # PyNone) =>
        /\ import_result.ok
        /\ CanonicalContainer(container) = CanonicalContainer(before)

----------------------------------------------------------------------------
(* Claims about sequences of imports and exports *)

\* the names of the declared configuration fields: the attributes the class
\* declares, but for the private ones
DeclaredFields == {declared[i].name : i \in 1 .. Len(declared)} \ PrivateNames

\* the variant of a value: its class, or its primitive type with bool
\* counted as the int it is an instance of
VariantOf(x) ==
    IF x.k = "obj" THEN x.cls ELSE IF x.k = "bool" THEN "int" ELSE x.k
SameVariant(x, y) ==
    \/ VariantOf(x) = VariantOf(y)
    \/ x.k = y.k

\* the first item of the config dict the last import_config was given
FirstKey == updates[1].name
FirstValue == updates[1].value

\* C11: after any sequence of imports every field holds a value of the
\* variant of its declared default: a value of another variant is rejected.
C11_FieldsKeepTheirVariant ==
    \A i \in 1 .. Len(declared) :
        /\ InDict(container, declared[i].name)
        /\ SameVariant(GetAttr(container, declared[i].name), declared[i].value)

\* C12: into a field holding a bool, int, float or str an untagged value is
\* accepted only when its type is exactly the field's type; any other fails
\* with the type-mismatch TypeError and stores nothing.
C12_PrimitiveTypeExact ==
    (/\ imports > 0
     /\ InDict(before, FirstKey)
     /\ GetAttr(before, FirstKey).k \in {"bool", "int", "float", "str"}
     /\ ~HasKey(FirstValue, "type")
     /\ FirstValue.k # GetAttr(before, FirstKey).k)
        => /\ import_result = Raise("TypeError", "Type mismatch")
           /\ container = before

\* C13: a key that is not the name of a declared configuration field (the
\* names of methods and of private attributes are not) fails with the
\* unknown-field KeyError and neither creates nor overwrites an attribute.
C13_UnknownKeyRejected ==
    (imports > 0 /\ FirstKey \notin DeclaredFields)
        => /\ import_result = Raise("KeyError", "Config key not found in bot configuration.")
           /\ container = before

\* C14: a tagged wire object whose tag TYPE_MAP does not register makes the
\* import fail, with the unknown-type ValueError when it is the first key,
\* and the field keeps its previous value.
C14_UnknownTagRejected ==
    \A i \in 1 .. Len(updates) :
        (/\ imports > 0
         /\ HasAttr(before, updates[i].name)
         /\ HasKey(updates[i].value, "type")
         /\ updates[i].value.v.type \notin {Tag(c) : c \in TYPE_MAP})
            => /\ ~import_result.ok
               /\ GetAttr(container, updates[i].name) = GetAttr(before, updates[i].name)
               /\ (i = 1 => /\ import_result = Raise("ValueError", "Unknown parameter type")
                            /\ container = before)

C14_Witness ==
    /\ imports > 0
    /\ updates = <<[name |-> "param", value |-> TaggedBogus]>>
    /\ GetAttr(before, "param").cls = "RGB"
    /\ import_result = Raise("ValueError", "Unknown parameter type")
    /\ GetAttr(container, "param") = GetAttr(declared, "param")

\* C15: when import_config fails at key k, every key before k has been
\* applied in full, the field of k and the fields of the later keys hold
\* their previous values, and the exception reaches the caller.
C15_FieldAtomicNoRollback ==
    (imports > 0 /\ ~import_result.ok) =>
        \E k \in 1 .. Len(updates) :
            /\ import_result = ImportValue(before, updates[k].name, updates[k].value)
            /\ \A j \in 1 .. (k - 1) :
                LET new == ImportValue(before, updates[j].name, updates[j].value) IN
                /\ new.ok
                /\ InDict(container, updates[j].name)
                /\ GetAttr(container, updates[j].name) = new.val
            /\ \A j \in k .. Len(updates) :
                /\ InDict(container, updates[j].name) = InDict(before, updates[j].name)
                /\ GetAttr(container, updates[j].name) = GetAttr(before, updates[j].name)
            /\ \A i \in 1 .. Len(before) :
                (\A j \in 1 .. Len(updates) : updates[j].name # before[i].name)
                    => GetAttr(container, before[i].name) = before[i].value

C15_Witness ==
    /\ Len(updates) = 2
    /\ ~import_result.ok
    /\ updates[2].value = List(<<LooseColor, Str(s_logs)>>)
    /\ GetAttr(before, "count") = Integer(7)
    /\ GetAttr(container, "count") = Integer(995)
    /\ GetAttr(container, "params") = GetAttr(before, "params")

\* C16: into a field holding an instance of class V, a tagged wire object is
\* decoded with V.from_json and every untagged value with V.load: the import
\* succeeds exactly when that call does and stores what it returns.
C16_DecodedByTheFieldsClass ==
    (/\ imports > 0
     /\ Len(updates) = 1
     /\ InDict(before, FirstKey)
     /\ IsCfgType(GetAttr(before, FirstKey)))
        => LET V == GetAttr(before, FirstKey).cls
               expected == IF HasKey(FirstValue, "type") THEN from_json(V, FirstValue)
                           ELSE load(V, FirstValue) IN
           /\ import_result.ok = expected.ok
           /\ expected.ok => GetAttr(container, FirstKey) = expected.val

\* C17: a field declared as a list of instances of class V holds, after any
\* sequence of imports, a list of instances of V only.
C17_ListFieldHoldsItsClass ==
    \A i \in 1 .. Len(declared) :
        (/\ declared[i].value.k = "list"
         /\ Len(declared[i].value.v) > 0
         /\ IsCfgType(declared[i].value.v[1]))
            => LET now_held == GetAttr(container, declared[i].name) IN
               /\ now_held.k = "list"
               /\ \A j \in 1 .. Len(now_held.v) :
                    /\ now_held.v[j].k = "obj"
                    /\ now_held.v[j].cls = declared[i].value.v[1].cls

\* C18: export_config is a pure read: an export changes no attribute of the
\* container, so the outcome of an import is decided by the attributes at
\* its call and its config alone, and an import leaves a dict that an
\* earlier export returned as it was.
C18_ExportIsPureRead ==
    /\ [][(imports' = imports) => (container' = container)]_vars
    /\ [][(imports' # imports) => (exported' = exported)]_vars
    /\ [](imports > 0 =>
            /\ import_result = import_config(before, updates).result
            /\ container = import_config(before, updates).cfg)

C18_Witness ==
    /\ imports > 0
    /\ import_result.ok
    /\ container # before
    /\ exported = List(export_config(before))
    /\ exported # List(export_config(container))

----------------------------------------------------------------------------
(* Claims about construction *)

RGBPaths == {"RGBParam", "RGBParam.from_rgb", "RGBParam.from_tuple",
             "RGBParam.from_hex", "RGBParam.load", "RGBParam.from_json",
             "import_config"}

\* an integer within 0 .. 255, as an int, a bool or a float of integral value
IsChannel(c) ==
    /\ IsNumber(c)
    /\ Scaled(c) % FloatScale = 0
    /\ Scaled(c) \div FloatScale \in 0 .. 255

\* C19: every RGBParam a construction path returns has three channels that
\* are integers within 0 .. 255, and constructing from three numbers of
\* which one is outside 0 .. 255 raises the validation ValueError.
C19_ChannelsWithinRange ==
    /\ (decoder \in RGBPaths /\ decoded.ok /\ decoded.val.k = "obj"
            /\ decoded.val.cls = "RGB")
         => \A c \in {decoded.val.f.r, decoded.val.f.g, decoded.val.f.b} : IsChannel(c)
    /\ (decoder \in {"RGBParam", "RGBParam.from_rgb", "RGBParam.from_tuple"}
            /\ Len(wire.v) = 3
            /\ (\A i \in 1 .. 3 : IsNumber(wire.v[i]))
            /\ (\E j \in 1 .. 3 : ChannelCheck(wire.v[j]) = "out"))
         => (~decoded.ok /\ decoded.err = "ValueError")

\* the three documented shapes of WaypointParam.load's argument
NestedShape(value, n) ==
    /\ value.k = "list" /\ Len(value.v) = n
    /\ value.v[1].k = "list" /\ Len(value.v[1].v) = 3
FlatShape(value) ==
    /\ value.k = "list" /\ Len(value.v) = 4
    /\ value.v[1].k # "list"

\* C20: WaypointParam.load maps [[x, y, z], c, t] to (x, y, z, c, t),
\* [[x, y, z], c] and [x, y, z, c] to (x, y, z, c, 5), and rejects every
\* other argument with the validation ValueError.
C20_WaypointLoadShapes ==
    (decoder = "WaypointParam.load") =>
        IF NestedShape(wire, 3)
        THEN decoded = Ok(WaypointParam(wire.v[1].v[1], wire.v[1].v[2], wire.v[1].v[3],
                                        wire.v[2], wire.v[3]))
        ELSE IF NestedShape(wire, 2)
        THEN decoded = Ok(WaypointParam(wire.v[1].v[1], wire.v[1].v[2], wire.v[1].v[3],
                                        wire.v[2], Integer(5)))
        ELSE IF FlatShape(wire)
        THEN decoded = Ok(WaypointParam(wire.v[1], wire.v[2], wire.v[3], wire.v[4],
                                        Integer(5)))
        ELSE ~decoded.ok /\ decoded.err = "ValueError"

----------------------------------------------------------------------------
(* Claims about routes *)

\* the waypoint sequence of a Route
WaypointsOf(route) == route.f.waypoints.v

\* C21: RouteParam.reverse returns a Route whose i-th waypoint is the
\* original's (n-1-i)-th, every field of it unchanged, and leaves the
\* original route as it was; reversing twice gives the original sequence;
\* for routes of every length, the empty route included.
C21_ReverseIsAnInvolution ==
    /\ [][val' = val]_vars
    /\ [](decoder = "RouteParam.reverse" =>
            /\ decoded.ok
            /\ decoded.val.k = "obj" /\ decoded.val.cls = "Route"
            /\ Len(WaypointsOf(decoded.val)) = Len(WaypointsOf(val))
            /\ \A i \in 1 .. Len(WaypointsOf(val)) :
                 WaypointsOf(decoded.val)[i]
                     = WaypointsOf(val)[Len(WaypointsOf(val)) + 1 - i])
    /\ [](decoder = "reverse.reverse" =>
            /\ decoded.ok
            /\ WaypointsOf(decoded.val) = WaypointsOf(val)
            /\ \A i \in 1 .. Len(WaypointsOf(val)) :
                 WaypointsOf(wire)[i]
                     = WaypointsOf(val)[Len(WaypointsOf(val)) + 1 - i])

C21_Witness ==
    /\ decoder = "reverse.reverse"
    /\ Len(WaypointsOf(val)) = MaxRouteLen
    /\ WaypointsOf(val)[1] # WaypointsOf(val)[MaxRouteLen]
    /\ WaypointsOf(wire) # WaypointsOf(val)
    /\ WaypointsOf(decoded.val) = WaypointsOf(val)

----------------------------------------------------------------------------
(* Claims about the break scheduler, the listener and the threads *)

\* C22: whatever random.random() draws, should_break is false for a chance
\* of at most 0 and true for a chance of at least 1; so with a chance of at
\* most 0 no propose_break changes break_until, and with a chance of at
\* least 1 every propose_break leaves a break scheduled (now < break_until).
C22_ChanceExtremesDecide ==
    /\ [](\A c \in (-ChanceScale) .. (2 * ChanceScale) : \A r \in RandomDraws :
            /\ (c <= 0 => ~should_break([chance |-> c], r))
            /\ (c >= ChanceScale => should_break([chance |-> c], r)))
    /\ [][\A r \in RandomDraws : \A d \in Durations :
            (ProposeBreakWith(r, d) /\ break_config # NoBreakCfg)
               => /\ (break_config.chance <= 0
                        => (~should_break(break_config, r)
                              /\ break_until' = break_until))
                  /\ (break_config.chance >= ChanceScale
                        => (should_break(break_config, r)
                              /\ now < break_until'))]_vars

\* the key events the handler ignores
Ignored(etype, name, is_keypad) ==
    \/ etype # "down"
    \/ is_keypad
    \/ name \notin {"page up", "pageup", "page down", "pagedown"}

\* C23: a non-keypad key-down of the pause key flips pause exactly when at
\* least the debounce window has passed since the last accepted toggle; a
\* press inside the window leaves pause and the last-toggle time unchanged,
\* so the presses within one window flip pause once.
C23_PauseKeyDebounced ==
    /\ [][\A name \in {"page down", "pagedown"} :
            (lpc = "hooked" /\ lpc' = "hooked" /\ handler("down", name, FALSE))
               => IF now - last_pause_toggle >= toggle_cooldown
                  THEN pause' = ~pause /\ last_pause_toggle' = now
                  ELSE pause' = pause /\ last_pause_toggle' = last_pause_toggle]_vars
    /\ [][(lpc' = "hooked" /\ last_pause_toggle' # last_pause_toggle)
            => /\ now - last_pause_toggle >= toggle_cooldown
               /\ pause' = ~pause
               /\ last_pause_toggle' = now]_vars

\* the second accepted toggle, and a moment inside its window
C23_Witness ==
    /\ lpc = "hooked"
    /\ last_pause_toggle = 2 * toggle_cooldown
    /\ now = last_pause_toggle + 1
    /\ pause

\* C24: a key event that is not a key-down, that comes from the keypad, or
\* whose key is neither the terminate key nor the pause key leaves
\* terminate, pause and break_until unchanged; no key event sets terminate
\* to false.
C24_OtherKeyEventsIgnored ==
    /\ [][(<<terminate, pause, break_until, last_pause_toggle>>'
                # <<terminate, pause, break_until, last_pause_toggle>>
            /\ KeyEvent)
           => \A etype \in EventTypes, name \in KeyNames, is_keypad \in BOOLEAN :
                 Ignored(etype, name, is_keypad) => ~handler(etype, name, is_keypad)]_vars
    /\ [][(terminate /\ ~terminate') => ~KeyEvent]_vars

\* a key event was acted upon with terminate true, and terminate is true
C24_Witness ==
    /\ lpc = "hooked"
    /\ terminate
    /\ pause
    /\ last_pause_toggle = now
    /\ break_until > now

\* C26: propose_break without a break descriptor is a no-op: terminate,
\* pause, break_until and the descriptor stay as they are; with a
\* descriptor, propose_break changes break_until and nothing else.
C26_ProposeBreakFrame ==
    [][\A r \in RandomDraws : \A d \in Durations :
         ProposeBreakWith(r, d)
           => /\ UNCHANGED <<terminate, pause, break_config>>
              /\ (break_config = NoBreakCfg => break_until' = break_until)]_vars

\* a break was scheduled while pause was true, and pause is still true
C26_Witness ==
    /\ break_config # NoBreakCfg
    /\ break_until > now
    /\ gpc = "idle"
    /\ pause
    /\ ~terminate

\* C25: in every reachable state with terminate false, those reached after
\* start_bot reset terminate to false included, the hook of the listener is
\* registered, so that the terminate key sets terminate to true.
C25_ListenerRegisteredWhileRunning ==
    ~terminate => lpc = "hooked"

\* C28: no wrapped operation begins in a state where terminate or pause is
\* true: a write of terminate or pause that completes before the operation
\* starts prevents it from starting.
C28_NoOperationBeginsWhenFlagged ==
    [][(gpc = "invoke" /\ gpc' = "returned") => (~terminate /\ ~pause)]_vars

\* C30: break_until does not decrease over propose_break calls: a
\* propose_break made while a break is scheduled (now < break_until) does
\* not move break_until to an earlier time.
C30_ScheduledBreakNeverShortened ==
    [][(now < break_until /\ break_until' < break_until) => ~RoutineProposeBreak]_vars

\* C27: for any interleaving of concurrent ScriptControl() calls exactly one
\* instance is created, its initialiser runs once, and every call returns
\* that instance.
C27_SingletonThreadSafe ==
    /\ meta.created <= 1
    /\ \A t \in Callers :
          meta.pc[t] = "done" => (meta.created = 1 /\ meta.returned[t] = 1)
    /\ \A t, u \in Callers :
          (meta.pc[t] = "done" /\ meta.pc[u] = "done")
             => meta.returned[t] = meta.returned[u]

\* C29: when start_bot replaces a running bot, the routine thread of the
\* previous bot eventually observes the termination request and stops, and
\* the routines of the two bots never run guarded operations concurrently.
C29_ReplacedRoutineStops ==
    /\ [](~(prev.pc = "invoke" /\ gpc = "invoke"))
    /\ ((prev.pc # "none") ~> (prev.pc = "raised"))

====
